---- MODULE Spec2Model ----
(***************************************************************************)
(* Model of the cryptographic core of construct-messenger-web              *)
(* (packages/core/src/crypto): the classic suite as symbolic terms, the    *)
(* X3DH handshake, the Double Ratchet session, and the multi-session       *)
(* Client.                                                                 *)
(*                                                                         *)
(* Keys are symbolic.  A KEM or signing private key is a positive integer  *)
(* drawn from the RNG; its public half is the negated integer.  Every      *)
(* symmetric key is the sequence of integers that spells its derivation,   *)
(* so two keys are equal exactly when they were derived the same way.      *)
(***************************************************************************)
EXTENDS Integers, Sequences, FiniteSets, TLC

VARIABLES
    clients,   \* client id -> [key_manager, sessions]   (client_api.rs Client)
    net,       \* log of every EncryptedRatchetMessage emitted, in emission order
    dlog,      \* log of every delivery to a Client: which message, what came back
    rng,       \* OsRng: the next fresh value it will hand out
    now,       \* SystemTime::now() in seconds
    last,      \* the most recent Client call and its result
    hs         \* a stand-alone run beside the Clients: an X3DH run, a session
               \* snapshot, a sealed key record

vars == <<clients, net, dlog, rng, now, last, hs>>

-----------------------------------------------------------------------------
(* Bounds of the model *)

MaxKeyId == 3
MaxMsgs == 2
MaxFifoMsgs == 4
MaxReorderMsgs == 4
MaxChain == 7
MaxDeliveries == 5
MaxRng == 10
MaxLossyMsgs == 3
MaxRespMsgs == 2
MaxRotations == 2
MaxTicks == 3
MaxCleanupMsgs == 3
MaxCleanupTicks == 3
MaxCleanupAge == 2
MaxSnapMsgs == 4
MaxWireMsgs == 4
MaxCoreMsgs == 3
MaxThreads == 2
MaxAcrossMsgs == 4
MaxHostileMsgs == 3
MaxHostileDeliveries == 4
MaxInboundMsgs == 3
MaxInboundTasks == 2
NumPlain == 2

-----------------------------------------------------------------------------
(* Configuration (config.rs).  max_skipped_messages defaults to 1000 and is
   set per deployment (Config::init_with, MAX_SKIPPED_MESSAGES); the model
   runs the configuration with 4, the one of the skipped-key scenario. *)

classic_suite_id == 1
max_skipped_messages == 4

-----------------------------------------------------------------------------
(* Classic suite (suites/classic.rs), symbolically *)

InfoX3DHRootKey == -1
InfoInitialRootKey == -2
InfoRootKeyExpansion == -3
InfoChainKeyExpansion == -4

from_private_key_to_public_key(private_key) == 0 - private_key

from_signature_private_to_public(private_key) == 0 - private_key

\* X25519: DH(a, pub(b)) = DH(b, pub(a)); the secret is the unordered pair.
kem_decapsulate(private_key, public_key) ==
    LET other == 0 - public_key
    IN IF private_key <= other THEN <<private_key, other>>
       ELSE <<other, private_key>>

sign(private_key, message) == <<private_key, message>>

verify(public_key, message, signature) ==
    signature = <<0 - public_key, message>>

\* HKDF-SHA256 extract-and-expand: a function of salt, ikm, info and length.
hkdf_derive_key(salt, ikm, info, len) == salt \o <<0>> \o ikm \o <<info, len>>

\* output[..32] and output[32..] of a 64-byte expansion
kdf_rk(root_key, dh_output) ==
    LET output == hkdf_derive_key(root_key, dh_output, InfoRootKeyExpansion, 64)
    IN [new_root_key |-> Append(output, 1), chain_key |-> Append(output, 2)]

kdf_ck(chain_key) ==
    LET output == hkdf_derive_key(chain_key, <<>>, InfoChainKeyExpansion, 64)
    IN [message_key |-> Append(output, 1), next_chain |-> Append(output, 2)]

\* ChaCha20-Poly1305: the ciphertext opens only under the same key, nonce
\* and associated data.
aead_encrypt(key, nonce, plaintext, associated_data) ==
    [key |-> key, nonce |-> nonce, pt |-> plaintext, ad |-> associated_data]

aead_decrypt(key, nonce, ciphertext, associated_data) ==
    IF /\ ciphertext.key = key
       /\ ciphertext.nonce = nonce
       /\ ciphertext.ad = associated_data
    THEN [ok |-> TRUE, pt |-> ciphertext.pt, err |-> "none"]
    ELSE [ok |-> FALSE, pt |-> 0, err |-> "Decryption failed"]

-----------------------------------------------------------------------------
(* X3DH (handshake/x3dh.rs) *)

NoKey == 0
NoRoot == <<>>

X3DHPublicKeyBundle(identity_public, signed_prekey_public, signature, verifying_key) ==
    [identity_public |-> identity_public,
     signed_prekey_public |-> signed_prekey_public,
     signature |-> signature,
     verifying_key |-> verifying_key,
     suite_id |-> classic_suite_id]

perform_as_initiator_unverified(local_identity, remote_bundle, ephemeral_private) ==
    LET dh1 == kem_decapsulate(local_identity, remote_bundle.signed_prekey_public)
        dh2 == kem_decapsulate(ephemeral_private, remote_bundle.identity_public)
        dh3 == kem_decapsulate(ephemeral_private, remote_bundle.signed_prekey_public)
    IN [ok |-> TRUE, err |-> "none",
        root_key |-> hkdf_derive_key(<<>>, dh1 \o dh2 \o dh3, InfoX3DHRootKey, 32),
        ephemeral_private |-> ephemeral_private]

\* The ephemeral pair is generated first, the signature is verified next;
\* on a bad signature the function returns Err and the ephemeral is dropped.
perform_as_initiator(local_identity, remote_bundle, ephemeral_private) ==
    IF ~verify(remote_bundle.verifying_key, remote_bundle.signed_prekey_public,
               remote_bundle.signature)
    THEN [ok |-> FALSE, err |-> "Signature verification failed",
          root_key |-> NoRoot, ephemeral_private |-> NoKey]
    ELSE LET dh1 == kem_decapsulate(local_identity, remote_bundle.signed_prekey_public)
             dh2 == kem_decapsulate(ephemeral_private, remote_bundle.identity_public)
             dh3 == kem_decapsulate(ephemeral_private,
                                    remote_bundle.signed_prekey_public)
         IN [ok |-> TRUE, err |-> "none",
             root_key |-> hkdf_derive_key(<<>>, dh1 \o dh2 \o dh3,
                                          InfoX3DHRootKey, 32),
             ephemeral_private |-> ephemeral_private]

perform_as_responder_swapped(local_identity, local_signed_prekey, remote_identity, remote_ephemeral) ==
    LET dh1 == kem_decapsulate(local_signed_prekey, remote_identity)
        dh2 == kem_decapsulate(local_identity, remote_ephemeral)
        dh3 == kem_decapsulate(local_signed_prekey, remote_ephemeral)
    IN hkdf_derive_key(<<>>, dh2 \o dh1 \o dh3, InfoX3DHRootKey, 32)

perform_as_responder(local_identity, local_signed_prekey, remote_identity, remote_ephemeral) ==
    LET dh1 == kem_decapsulate(local_signed_prekey, remote_identity)
        dh2 == kem_decapsulate(local_identity, remote_ephemeral)
        dh3 == kem_decapsulate(local_signed_prekey, remote_ephemeral)
    IN hkdf_derive_key(<<>>, dh1 \o dh2 \o dh3, InfoX3DHRootKey, 32)

-----------------------------------------------------------------------------
(* Double Ratchet (messaging/double_ratchet.rs) *)

\* HashMap insert / remove on a map kept as a function
MapInsert(map, k, v) == [x \in DOMAIN map \cup {k} |-> IF x = k THEN v ELSE map[x]]

MapRemove(map, k) == [x \in DOMAIN map \ {k} |-> map[x]]

EmptyMap == [x \in {} |-> 0]

Ok(plaintext) == [ok |-> TRUE, pt |-> plaintext, err |-> "none"]

Err(message) == [ok |-> FALSE, pt |-> 0, err |-> message]

\* the X3DH ephemeral becomes the first DH ratchet key; the receiving chain
\* key is AeadKey::default() until the first DH step
new_initiator_session(root_key, ephemeral_private, remote_identity) ==
    LET root_key_val == hkdf_derive_key(<<>>, root_key, InfoInitialRootKey, 32)
        dh_output_secret == kem_decapsulate(ephemeral_private, remote_identity)
        rk == kdf_rk(root_key_val, dh_output_secret)
    IN [suite_id |-> classic_suite_id,
        root_key |-> rk.new_root_key,
        sending_chain_key |-> rk.chain_key,
        sending_chain_length |-> 0,
        receiving_chain_key |-> <<>>,
        receiving_chain_length |-> 0,
        dh_ratchet_private |-> ephemeral_private,
        dh_ratchet_public |-> from_private_key_to_public_key(ephemeral_private),
        remote_dh_public |-> remote_identity,
        previous_sending_length |-> 0,
        skipped_message_keys |-> EmptyMap,
        skipped_key_timestamps |-> EmptyMap]

encrypt_no_advance(session, plaintext, nonce) ==
    LET ck == kdf_ck(session.sending_chain_key)
        message_number == session.sending_chain_length
        associated_data == <<session.dh_ratchet_public, message_number>>
    IN [session |-> [session EXCEPT !.sending_chain_key = ck.next_chain],
        message |-> [dh_public_key |-> session.dh_ratchet_public,
                     message_number |-> message_number,
                     ciphertext |-> aead_encrypt(ck.message_key, nonce, plaintext,
                                                 associated_data),
                     nonce |-> nonce,
                     previous_chain_length |-> session.previous_sending_length,
                     suite_id |-> session.suite_id]]

encrypt(session, plaintext, nonce) ==
    LET ck == kdf_ck(session.sending_chain_key)
        message_number == session.sending_chain_length
        associated_data == <<session.dh_ratchet_public, message_number>>
    IN [session |-> [session EXCEPT !.sending_chain_key = ck.next_chain,
                                    !.sending_chain_length = @ + 1],
        message |-> [dh_public_key |-> session.dh_ratchet_public,
                     message_number |-> message_number,
                     ciphertext |-> aead_encrypt(ck.message_key, nonce, plaintext,
                                                 associated_data),
                     nonce |-> nonce,
                     previous_chain_length |-> session.previous_sending_length,
                     suite_id |-> session.suite_id]]

perform_dh_ratchet_forgetful(session, new_remote_dh, new_dh_private) ==
    LET dh_receive == kem_decapsulate(session.dh_ratchet_private, new_remote_dh)
        rk1 == kdf_rk(session.root_key, dh_receive)
        dh_send == kem_decapsulate(new_dh_private, new_remote_dh)
        rk2 == kdf_rk(rk1.new_root_key, dh_send)
    IN [session EXCEPT
          !.root_key = rk2.new_root_key,
          !.receiving_chain_key = rk1.chain_key,
          !.receiving_chain_length = 0,
          !.sending_chain_key = rk2.chain_key,
          !.sending_chain_length = 0,
          !.dh_ratchet_private = new_dh_private,
          !.dh_ratchet_public = from_private_key_to_public_key(new_dh_private),
          !.remote_dh_public = new_remote_dh]

perform_dh_ratchet_public(session, new_remote_dh, new_dh_private) ==
    LET rk1 == kdf_rk(<<>>, <<new_remote_dh>>)
        rk2 == kdf_rk(<<>>, <<from_private_key_to_public_key(new_dh_private)>>)
    IN [session EXCEPT
          !.previous_sending_length = session.sending_chain_length,
          !.root_key = rk2.new_root_key,
          !.receiving_chain_key = rk1.chain_key,
          !.receiving_chain_length = 0,
          !.sending_chain_key = rk2.chain_key,
          !.sending_chain_length = 0,
          !.dh_ratchet_private = new_dh_private,
          !.dh_ratchet_public = from_private_key_to_public_key(new_dh_private),
          !.remote_dh_public = new_remote_dh]

perform_dh_ratchet(session, new_remote_dh, new_dh_private) ==
    LET dh_receive == kem_decapsulate(session.dh_ratchet_private, new_remote_dh)
        rk1 == kdf_rk(session.root_key, dh_receive)
        dh_send == kem_decapsulate(new_dh_private, new_remote_dh)
        rk2 == kdf_rk(rk1.new_root_key, dh_send)
    IN [session EXCEPT
          !.previous_sending_length = session.sending_chain_length,
          !.root_key = rk2.new_root_key,
          !.receiving_chain_key = rk1.chain_key,
          !.receiving_chain_length = 0,
          !.sending_chain_key = rk2.chain_key,
          !.sending_chain_length = 0,
          !.dh_ratchet_private = new_dh_private,
          !.dh_ratchet_public = from_private_key_to_public_key(new_dh_private),
          !.remote_dh_public = new_remote_dh]

decrypt_with_key(message_key, encrypted) ==
    aead_decrypt(message_key, encrypted.nonce, encrypted.ciphertext,
                 <<encrypted.dh_public_key, encrypted.message_number>>)

TooManySkipped_at_bound(session) ==
    Cardinality(DOMAIN session.skipped_message_keys) >= max_skipped_messages

\* the skipped-key bound as the code tests it: after the insert
TooManySkipped(session) ==
    Cardinality(DOMAIN session.skipped_message_keys) > max_skipped_messages

\* the while loop of decrypt: derive along the receiving chain up to the
\* message number, storing every key passed on the way
RECURSIVE derive_until(_, _)
derive_until(session, encrypted) ==
    IF ~(session.receiving_chain_length <= encrypted.message_number)
    THEN [session |-> session, result |-> Err("Message key not found")]
    ELSE LET ck == kdf_ck(session.receiving_chain_key)
         IN IF session.receiving_chain_length = encrypted.message_number
            THEN [session |-> [session EXCEPT
                                 !.receiving_chain_key = ck.next_chain,
                                 !.receiving_chain_length = @ + 1],
                  result |-> decrypt_with_key(ck.message_key, encrypted)]
            ELSE LET stored ==
                       [session EXCEPT
                          !.skipped_message_keys =
                              MapInsert(@, session.receiving_chain_length, ck.message_key),
                          !.skipped_key_timestamps =
                              MapInsert(@, session.receiving_chain_length, now),
                          !.receiving_chain_key = ck.next_chain,
                          !.receiving_chain_length = @ + 1]
                 IN IF TooManySkipped(stored)
                    THEN [session |-> stored,
                          result |-> Err("Too many skipped messages")]
                    ELSE derive_until(stored, encrypted)

decrypt_no_ratchet(session, encrypted, new_dh_private) ==
    IF encrypted.message_number \in DOMAIN session.skipped_message_keys
    THEN [session |-> [session EXCEPT
                         !.skipped_message_keys =
                             MapRemove(@, encrypted.message_number)],
          result |-> decrypt_with_key(
                         session.skipped_message_keys[encrypted.message_number],
                         encrypted)]
    ELSE derive_until(session, encrypted)

decrypt_restoring(session, encrypted, new_dh_private) ==
    LET needs_ratchet == session.remote_dh_public # encrypted.dh_public_key
        ratcheted == IF needs_ratchet
                     THEN perform_dh_ratchet(session, encrypted.dh_public_key,
                                             new_dh_private)
                     ELSE session
        d == IF encrypted.message_number \in DOMAIN ratcheted.skipped_message_keys
             THEN [session |-> [ratcheted EXCEPT
                                  !.skipped_message_keys =
                                      MapRemove(@, encrypted.message_number)],
                   result |-> decrypt_with_key(
                                  ratcheted.skipped_message_keys[encrypted.message_number],
                                  encrypted)]
             ELSE derive_until(ratcheted, encrypted)
    IN IF d.result.ok THEN d ELSE [session |-> session, result |-> d.result]

decrypt_keep_skipped(session, encrypted, new_dh_private) ==
    LET needs_ratchet == session.remote_dh_public # encrypted.dh_public_key
        ratcheted == IF needs_ratchet
                     THEN perform_dh_ratchet(session, encrypted.dh_public_key,
                                             new_dh_private)
                     ELSE session
    IN IF encrypted.message_number \in DOMAIN ratcheted.skipped_message_keys
       THEN [session |-> ratcheted,
             result |-> decrypt_with_key(
                            ratcheted.skipped_message_keys[encrypted.message_number],
                            encrypted)]
       ELSE derive_until(ratcheted, encrypted)

\* a DH step when the message's DH key is not the stored remote key, then
\* the skipped-key lookup by message number, then the chain walk
decrypt(session, encrypted, new_dh_private) ==
    LET needs_ratchet == session.remote_dh_public # encrypted.dh_public_key
        ratcheted == IF needs_ratchet
                     THEN perform_dh_ratchet(session, encrypted.dh_public_key,
                                             new_dh_private)
                     ELSE session
    IN IF encrypted.message_number \in DOMAIN ratcheted.skipped_message_keys
       THEN [session |-> [ratcheted EXCEPT
                            !.skipped_message_keys =
                                MapRemove(@, encrypted.message_number)],
             result |-> decrypt_with_key(
                            ratcheted.skipped_message_keys[encrypted.message_number],
                            encrypted)]
       ELSE derive_until(ratcheted, encrypted)

\* two fresh values may be drawn: the responder's DH pair, and the pair of a
\* DH step inside the first decrypt (never taken: remote_dh_public is the
\* first message's key)
new_responder_session(root_key, local_identity, first_message, dh_private, spare) ==
    LET remote_dh_public == first_message.dh_public_key
        root_key_val == hkdf_derive_key(<<>>, root_key, InfoInitialRootKey, 32)
        rk1 == kdf_rk(root_key_val, kem_decapsulate(local_identity, remote_dh_public))
        rk2 == kdf_rk(rk1.new_root_key, kem_decapsulate(dh_private, remote_dh_public))
        session == [suite_id |-> first_message.suite_id,
                    root_key |-> rk2.new_root_key,
                    sending_chain_key |-> rk2.chain_key,
                    sending_chain_length |-> 0,
                    receiving_chain_key |-> rk1.chain_key,
                    receiving_chain_length |-> 0,
                    dh_ratchet_private |-> dh_private,
                    dh_ratchet_public |-> from_private_key_to_public_key(dh_private),
                    remote_dh_public |-> remote_dh_public,
                    previous_sending_length |-> 0,
                    skipped_message_keys |-> EmptyMap,
                    skipped_key_timestamps |-> EmptyMap]
    IN decrypt(session, first_message, spare)

-----------------------------------------------------------------------------
(* KeyManager (keys.rs) *)

\* KeyManager::new() followed by initialize(): identity pair, signing pair,
\* then rotate_signed_prekey() creates the first signed prekey with key_id 1
KeyManager_initialize(identity, signing, prekey) ==
    [identity_key |-> identity,
     signing_key |-> signing,
     current_signed_prekey |->
         [key_pair |-> prekey,
          signature |-> sign(signing, from_private_key_to_public_key(prekey)),
          created_at |-> now,
          key_id |-> 1],
     old_prekeys |-> EmptyMap,
     next_prekey_id |-> 2]

export_registration_bundle(key_manager) ==
    X3DHPublicKeyBundle(
        from_private_key_to_public_key(key_manager.identity_key),
        from_private_key_to_public_key(key_manager.current_signed_prekey.key_pair),
        key_manager.current_signed_prekey.signature,
        from_signature_private_to_public(key_manager.signing_key))

-----------------------------------------------------------------------------
(* Client (client_api.rs) *)

Clients == {"alice", "bob"}

Peer(c) == CHOOSE p \in Clients : p # c

Plaintexts == 1 .. NumPlain

Client_new(identity, signing, prekey) ==
    [key_manager |-> KeyManager_initialize(identity, signing, prekey),
     sessions |-> EmptyMap]

has_session(c, contact_id) == contact_id \in DOMAIN clients[c].sessions

active_sessions_count(c) == Cardinality(DOMAIN clients[c].sessions)

\* the bundle a peer fetches from the server, and one whose signature bytes
\* were overwritten (test_x3dh_rejects_invalid_signature: vec![0xFF; 64])
GenuineBundle(p) == export_registration_bundle(clients[p].key_manager)

ForgedBundle(p) == [GenuineBundle(p) EXCEPT !.signature = <<0, 0>>]

\* a copy of a message whose ciphertext bytes were altered in transit
Tampered(message) == [message EXCEPT !.ciphertext.key = <<>>]

Call(op, c, contact_id, result, idx) ==
    [op |-> op, client |-> c, peer |-> contact_id, ok |-> result.ok,
     err |-> result.err, pt |-> result.pt, idx |-> idx]

Delivery(c, idx, tampered, result) ==
    [to |-> c, idx |-> idx, tampered |-> tampered, ok |-> result.ok,
     err |-> result.err, pt |-> result.pt]

init_session_leaky(c, contact_id, remote_bundle) ==
    IF contact_id \in DOMAIN clients[c].sessions
    THEN /\ last' = Call("init_session", c, contact_id, Err("Session already exists"), 0)
         /\ UNCHANGED <<clients, net, dlog, rng, now, hs>>
    ELSE LET handshake == perform_as_initiator_unverified(
                              clients[c].key_manager.identity_key, remote_bundle, rng)
             checked == perform_as_initiator(clients[c].key_manager.identity_key,
                                             remote_bundle, rng)
         IN /\ clients' = [clients EXCEPT ![c].sessions =
                    MapInsert(@, contact_id,
                              new_initiator_session(handshake.root_key,
                                                    handshake.ephemeral_private,
                                                    remote_bundle.identity_public))]
            /\ rng' = rng + 1
            /\ last' = Call("init_session", c, contact_id,
                            IF checked.ok THEN Ok(0) ELSE Err(checked.err), 0)
            /\ UNCHANGED <<net, dlog, now, hs>>

init_session_replace(c, contact_id, remote_bundle) ==
    LET handshake == perform_as_initiator(clients[c].key_manager.identity_key,
                                          remote_bundle, rng)
    IN IF ~handshake.ok
       THEN /\ last' = Call("init_session", c, contact_id, Err(handshake.err), 0)
            /\ UNCHANGED <<clients, net, dlog, rng, now, hs>>
       ELSE /\ clients' = [clients EXCEPT ![c].sessions =
                   MapInsert(@, contact_id,
                             new_initiator_session(handshake.root_key,
                                                   handshake.ephemeral_private,
                                                   remote_bundle.identity_public))]
            /\ rng' = rng + 1
            /\ last' = Call("init_session", c, contact_id,
                            IF contact_id \in DOMAIN clients[c].sessions
                            THEN Err("Session already exists") ELSE Ok(0), 0)
            /\ UNCHANGED <<net, dlog, now, hs>>

init_session(c, contact_id, remote_bundle) ==
    IF contact_id \in DOMAIN clients[c].sessions
    THEN /\ last' = Call("init_session", c, contact_id, Err("Session already exists"), 0)
         /\ UNCHANGED <<clients, net, dlog, rng, now, hs>>
    ELSE LET handshake == perform_as_initiator(clients[c].key_manager.identity_key,
                                               remote_bundle, rng)
         IN IF ~handshake.ok
            THEN /\ last' = Call("init_session", c, contact_id, Err(handshake.err), 0)
                 /\ UNCHANGED <<clients, net, dlog, rng, now, hs>>
            ELSE /\ clients' = [clients EXCEPT ![c].sessions =
                        MapInsert(@, contact_id,
                                  new_initiator_session(handshake.root_key,
                                                        handshake.ephemeral_private,
                                                        remote_bundle.identity_public))]
                 /\ rng' = rng + 1
                 /\ last' = Call("init_session", c, contact_id, Ok(0), 0)
                 /\ UNCHANGED <<net, dlog, now, hs>>

encrypt_message_open(c, contact_id, plaintext) ==
    IF contact_id \notin DOMAIN clients[c].sessions
    THEN /\ last' = Call("encrypt_message", c, contact_id, Err("No session with contact"), 0)
         /\ clients' = [clients EXCEPT ![c].sessions =
                MapInsert(@, contact_id, new_initiator_session(NoRoot, rng, NoKey))]
         /\ UNCHANGED <<net, dlog, rng, now, hs>>
    ELSE LET e == encrypt(clients[c].sessions[contact_id], plaintext, rng)
         IN /\ clients' = [clients EXCEPT ![c].sessions[contact_id] = e.session]
            /\ net' = Append(net, [from |-> c, to |-> contact_id, msg |-> e.message,
                                   pt |-> plaintext])
            /\ rng' = rng + 1
            /\ last' = Call("encrypt_message", c, contact_id, Ok(0), Len(net) + 1)
            /\ UNCHANGED <<dlog, now, hs>>

encrypt_message(c, contact_id, plaintext) ==
    IF contact_id \notin DOMAIN clients[c].sessions
    THEN /\ last' = Call("encrypt_message", c, contact_id, Err("No session with contact"), 0)
         /\ UNCHANGED <<clients, net, dlog, rng, now, hs>>
    ELSE LET e == encrypt(clients[c].sessions[contact_id], plaintext, rng)
         IN /\ clients' = [clients EXCEPT ![c].sessions[contact_id] = e.session]
            /\ net' = Append(net, [from |-> c, to |-> contact_id, msg |-> e.message,
                                   pt |-> plaintext])
            /\ rng' = rng + 1
            /\ last' = Call("encrypt_message", c, contact_id, Ok(0), Len(net) + 1)
            /\ UNCHANGED <<dlog, now, hs>>

\* the session is mutated in place: whatever decrypt did before it returned
\* an error stays
decrypt_message(c, contact_id, idx, tampered) ==
    LET message == IF tampered THEN Tampered(net[idx].msg) ELSE net[idx].msg
    IN IF contact_id \notin DOMAIN clients[c].sessions
       THEN /\ last' = Call("decrypt_message", c, contact_id,
                            Err("No session with contact"), idx)
            /\ UNCHANGED <<clients, net, dlog, rng, now, hs>>
       ELSE LET session == clients[c].sessions[contact_id]
                d == decrypt(session, message, rng)
            IN /\ clients' = [clients EXCEPT ![c].sessions[contact_id] = d.session]
               /\ rng' = IF d.session.dh_ratchet_private # session.dh_ratchet_private
                         THEN rng + 1 ELSE rng
               /\ dlog' = Append(dlog, Delivery(c, idx, tampered, d.result))
               /\ last' = Call("decrypt_message", c, contact_id, d.result, idx)
               /\ UNCHANGED <<net, now, hs>>

init_receiving_session_with_ephemeral_eager(c, contact_id, remote_identity, idx, tampered) ==
    LET first_message == IF tampered THEN Tampered(net[idx].msg) ELSE net[idx].msg
    IN IF contact_id \in DOMAIN clients[c].sessions
       THEN /\ last' = Call("init_receiving_session", c, contact_id,
                            Err("Session already exists"), idx)
            /\ UNCHANGED <<clients, net, dlog, rng, now, hs>>
       ELSE LET key_manager == clients[c].key_manager
                root_key == perform_as_responder(
                                key_manager.identity_key,
                                key_manager.current_signed_prekey.key_pair,
                                remote_identity,
                                first_message.dh_public_key)
                r == new_responder_session(root_key, key_manager.identity_key,
                                           first_message, rng, rng + 1)
            IN /\ clients' = [clients EXCEPT ![c].sessions =
                                  MapInsert(@, contact_id, r.session)]
               /\ rng' = rng + 1
               /\ dlog' = Append(dlog, Delivery(c, idx, tampered, r.result))
               /\ last' = Call("init_receiving_session", c, contact_id, r.result, idx)
               /\ UNCHANGED <<net, now, hs>>

\* remote_ephemeral is what every caller passes: the first message's
\* dh_public_key (uniffi_bindings.rs init_receiving_session)
init_receiving_session_with_ephemeral(c, contact_id, remote_identity, idx, tampered) ==
    LET first_message == IF tampered THEN Tampered(net[idx].msg) ELSE net[idx].msg
    IN IF contact_id \in DOMAIN clients[c].sessions
       THEN /\ last' = Call("init_receiving_session", c, contact_id,
                            Err("Session already exists"), idx)
            /\ UNCHANGED <<clients, net, dlog, rng, now, hs>>
       ELSE LET key_manager == clients[c].key_manager
                root_key == perform_as_responder(
                                key_manager.identity_key,
                                key_manager.current_signed_prekey.key_pair,
                                remote_identity,
                                first_message.dh_public_key)
                r == new_responder_session(root_key, key_manager.identity_key,
                                           first_message, rng, rng + 1)
            IN /\ IF r.result.ok
                  THEN /\ clients' = [clients EXCEPT ![c].sessions =
                                          MapInsert(@, contact_id, r.session)]
                       /\ rng' = rng + 1
                  ELSE UNCHANGED <<clients, rng>>
               /\ dlog' = Append(dlog, Delivery(c, idx, tampered, r.result))
               /\ last' = Call("init_receiving_session", c, contact_id, r.result, idx)
               /\ UNCHANGED <<net, now, hs>>

remove_session_keep(c, contact_id) ==
    /\ last' = Call("remove_session", c, contact_id,
                    Ok(IF contact_id \in DOMAIN clients[c].sessions THEN 1 ELSE 0), 0)
    /\ UNCHANGED <<clients, net, dlog, rng, now, hs>>

\* HashMap::remove(..).is_some(): the returned bool is carried as 1 / 0
remove_session(c, contact_id) ==
    /\ clients' = [clients EXCEPT ![c].sessions = MapRemove(@, contact_id)]
    /\ last' = Call("remove_session", c, contact_id,
                    Ok(IF contact_id \in DOMAIN clients[c].sessions THEN 1 ELSE 0), 0)
    /\ UNCHANGED <<net, dlog, rng, now, hs>>

IdentityPublic(p) == from_private_key_to_public_key(clients[p].key_manager.identity_key)

-----------------------------------------------------------------------------
(* The network between the two Clients *)

\* message idx (or its tampered copy) has been handed to its receiver
Delivered(idx, tampered) ==
    \E k \in DOMAIN dlog : dlog[k].idx = idx /\ dlog[k].tampered = tampered

Undelivered(c) ==
    {i \in DOMAIN net : net[i].to = c /\ ~Delivered(i, FALSE)}

NoCall == [op |-> "none", client |-> "none", peer |-> "none", ok |-> TRUE,
           err |-> "none", pt |-> 0, idx |-> 0]

NoHandshake == [run |-> FALSE]

InitClients ==
    /\ now = 0
    /\ clients = [c \in Clients |-> IF c = "alice" THEN Client_new(1, 2, 3)
                                    ELSE Client_new(4, 5, 6)]
    /\ rng = 7
    /\ net = <<>>
    /\ dlog = <<>>
    /\ last = NoCall

-----------------------------------------------------------------------------
(* Spec: every Client call, on any message, in any order *)

Init == InitClients /\ hs = NoHandshake

CallInitSession ==
    \E c \in Clients : \E forged \in BOOLEAN :
        init_session(c, Peer(c), IF forged THEN ForgedBundle(Peer(c))
                                 ELSE GenuineBundle(Peer(c)))

CallEncrypt ==
    \E c \in Clients : \E plaintext \in {1} :
        /\ Len(net) < MaxMsgs
        /\ encrypt_message(c, Peer(c), plaintext)

CallDecrypt ==
    \E c \in Clients : \E idx \in DOMAIN net : \E tampered \in BOOLEAN :
        /\ net[idx].to = c
        /\ ~Delivered(idx, tampered)
        /\ decrypt_message(c, Peer(c), idx, tampered)

CallInitReceiving ==
    \E c \in Clients : \E idx \in DOMAIN net : \E tampered \in BOOLEAN :
        /\ net[idx].to = c
        /\ ~Delivered(idx, tampered)
        /\ init_receiving_session_with_ephemeral(c, Peer(c), IdentityPublic(Peer(c)),
                                                 idx, tampered)

Next == CallInitSession \/ CallEncrypt \/ CallDecrypt \/ CallInitReceiving

Spec == Init /\ [][Next]_vars

-----------------------------------------------------------------------------
(* SpecX3DH: the two handshake computations on their own, for every choice
   of key material *)

KeyIds == 1 .. MaxKeyId

SignatureKinds == {"genuine", "overwritten", "other_key", "other_message"}

\* what the server hands the initiator: the responder's public keys and a
\* signature that may or may not be the one the responder made
BundleWith(identity, signed_prekey, signing, kind) ==
    X3DHPublicKeyBundle(
        from_private_key_to_public_key(identity),
        from_private_key_to_public_key(signed_prekey),
        CASE kind = "genuine" ->
                 sign(signing, from_private_key_to_public_key(signed_prekey))
          [] kind = "overwritten" -> <<0, 0>>
          [] kind = "other_key" ->
                 sign(signing + 1, from_private_key_to_public_key(signed_prekey))
          [] kind = "other_message" ->
                 sign(signing, from_private_key_to_public_key(signed_prekey + 1)),
        from_signature_private_to_public(signing))

NotRun == [ok |-> FALSE, err |-> "not run", root_key |-> NoRoot,
           ephemeral_private |-> NoKey]

InitX3DH ==
    /\ InitClients
    /\ \E alice_identity \in KeyIds, bob_identity \in KeyIds,
          bob_signed_prekey \in KeyIds, bob_signing \in KeyIds,
          kind \in SignatureKinds :
          hs = [run |-> TRUE,
                stage |-> "start",
                alice_identity |-> alice_identity,
                bob_identity |-> bob_identity,
                bob_signed_prekey |-> bob_signed_prekey,
                bundle |-> BundleWith(bob_identity, bob_signed_prekey, bob_signing, kind),
                initiator |-> NotRun,
                responder_root |-> NoRoot]

X3DHInitiate ==
    /\ hs.stage = "start"
    /\ \E ephemeral_private \in KeyIds :
          hs' = [hs EXCEPT
                   !.stage = "initiated",
                   !.initiator = perform_as_initiator(hs.alice_identity, hs.bundle,
                                                      ephemeral_private)]
    /\ UNCHANGED <<clients, net, dlog, rng, now, last>>

\* the responder is given the public half of the initiator's ephemeral
X3DHRespond ==
    /\ hs.stage = "initiated"
    /\ hs.initiator.ok
    /\ hs' = [hs EXCEPT
                !.stage = "responded",
                !.responder_root =
                    perform_as_responder(
                        hs.bob_identity, hs.bob_signed_prekey,
                        from_private_key_to_public_key(hs.alice_identity),
                        from_private_key_to_public_key(hs.initiator.ephemeral_private))]
    /\ UNCHANGED <<clients, net, dlog, rng, now, last>>

NextX3DH == X3DHInitiate \/ X3DHRespond

SpecX3DH == InitX3DH /\ [][NextX3DH]_vars

BundleVerifies ==
    verify(hs.bundle.verifying_key, hs.bundle.signed_prekey_public, hs.bundle.signature)

\* C2: whenever both sides have run the handshake, the responder, given the
\* public half of the initiator's ephemeral, holds the initiator's root key.
C2_HandshakeAgreement ==
    hs.stage = "responded" => hs.responder_root = hs.initiator.root_key

C2_Witness ==
    /\ hs.stage = "responded"
    /\ hs.responder_root = hs.initiator.root_key
    /\ hs.responder_root # NoRoot
    /\ Cardinality({hs.alice_identity, hs.bob_identity, hs.bob_signed_prekey,
                    hs.initiator.ephemeral_private}) = 3

\* C3: on a bundle whose signature does not verify under its verifying_key,
\* perform_as_initiator returns the signature error and neither a root key
\* nor an ephemeral private key.
C3_SignatureGate ==
    (hs.stage # "start" /\ ~BundleVerifies) =>
        /\ ~hs.initiator.ok
        /\ hs.initiator.err = "Signature verification failed"
        /\ hs.initiator.root_key = NoRoot
        /\ hs.initiator.ephemeral_private = NoKey

C3_Witness ==
    /\ hs.stage = "initiated"
    /\ ~BundleVerifies
    /\ hs.initiator.err = "Signature verification failed"
    /\ hs.bundle.signature[2] = hs.bundle.signed_prekey_public
    /\ hs.bundle.signature[1] # 0 - hs.bundle.verifying_key

-----------------------------------------------------------------------------
(* How an application hands a received message to its Client
   (uniffi_bindings.rs): the first message from a peer creates the session,
   every later one goes to decrypt_message *)

Receive(c, idx) ==
    IF has_session(c, Peer(c))
    THEN decrypt_message(c, Peer(c), idx, FALSE)
    ELSE init_receiving_session_with_ephemeral(c, Peer(c), IdentityPublic(Peer(c)),
                                               idx, FALSE)

NoSessions == \A c \in Clients : DOMAIN clients[c].sessions = {}

\* every delivery so far returned the plaintext that was encrypted
AllDelivered(log) ==
    \A k \in DOMAIN log : log[k].ok /\ log[k].pt = net[log[k].idx].pt

-----------------------------------------------------------------------------
(* SpecInOrder: one side initiates; the transport delivers every message
   once, in sending order *)

InOrderInitiate ==
    \E c \in Clients :
        /\ NoSessions
        /\ init_session(c, Peer(c), GenuineBundle(Peer(c)))

InOrderSend ==
    \E c \in Clients : \E plaintext \in Plaintexts :
        /\ has_session(c, Peer(c))
        /\ Len(net) < MaxFifoMsgs
        /\ encrypt_message(c, Peer(c), plaintext)

InOrderReceive ==
    \E c \in Clients : \E idx \in Undelivered(c) :
        /\ \A j \in Undelivered(c) : idx <= j
        /\ Receive(c, idx)

NextInOrder == InOrderInitiate \/ InOrderSend \/ InOrderReceive

SpecInOrder == Init /\ [][NextInOrder]_vars

\* C1: with sessions set up by one handshake and every message delivered
\* once in sending order, each delivery succeeds and returns exactly the
\* plaintext that was encrypted, across DH ratchet steps in both directions.
C1_InOrderRoundTrip == AllDelivered(dlog)

\* the last delivery is of a message on the initiator's second sending chain
C1_Witness ==
    /\ Len(dlog) = MaxFifoMsgs
    /\ AllDelivered(dlog)
    /\ \E k \in DOMAIN dlog :
          /\ net[dlog[k].idx].from = net[1].from
          /\ net[dlog[k].idx].msg.dh_public_key # net[1].msg.dh_public_key
    /\ \E k \in DOMAIN dlog : dlog[k].pt = NumPlain

\* the messages c emitted on the sending chain it held when it emitted net[i]
EarlierOnChain(i) ==
    {j \in 1 .. (i - 1) : /\ net[j].from = net[i].from
                          /\ net[j].msg.dh_public_key = net[i].msg.dh_public_key}

EmittedOnCurrentChain(c) ==
    {j \in DOMAIN net : /\ net[j].from = c
                        /\ net[j].msg.dh_public_key =
                               clients[c].sessions[Peer(c)].dh_ratchet_public}

\* C4: a message's message_number is the number of messages its sender
\* emitted before it on the same sending chain, and a session's sending
\* counter is the number of messages emitted on its current chain: numbering
\* starts at 0 at session creation and at every DH step and grows by one per
\* encrypt.
C4_MessageNumbering ==
    /\ \A i \in DOMAIN net :
          net[i].msg.message_number = Cardinality(EarlierOnChain(i))
    /\ \A c \in Clients :
          has_session(c, Peer(c)) =>
              clients[c].sessions[Peer(c)].sending_chain_length =
                  Cardinality(EmittedOnCurrentChain(c))

\* a chain of two messages, then a DH step, then number 0 again
C4_Witness ==
    \E i \in DOMAIN net : \E j \in DOMAIN net :
        /\ i < j
        /\ net[i].from = net[j].from
        /\ net[i].msg.message_number = 1
        /\ net[j].msg.message_number = 0
        /\ net[j].msg.previous_chain_length = 2

-----------------------------------------------------------------------------
(* SpecReorder: both sides send; the transport may drop messages and may
   reorder the messages of the sender's current chain, but delivers nothing
   of a chain once the sender has moved to the next one *)

OnCurrentChain(idx) ==
    net[idx].msg.dh_public_key =
        clients[net[idx].from].sessions[net[idx].to].dh_ratchet_public

ReorderInitiate ==
    /\ NoSessions
    /\ init_session("alice", "bob", GenuineBundle("bob"))

ReorderSend ==
    \E c \in Clients :
        /\ has_session(c, Peer(c))
        /\ Len(net) < MaxReorderMsgs
        /\ encrypt_message(c, Peer(c), 1)

ReorderReceive ==
    \E c \in Clients : \E idx \in Undelivered(c) :
        /\ OnCurrentChain(idx)
        /\ Receive(c, idx)

NextReorder == ReorderInitiate \/ ReorderSend \/ ReorderReceive

SpecReorder == Init /\ [][NextReorder]_vars

\* C5: every delivered message whose chain holds at most
\* max_skipped_messages messages is decrypted to its original plaintext,
\* whatever the order of delivery within its chain.
C5_AnyOrderWithinChain ==
    \A k \in DOMAIN dlog :
        net[dlog[k].idx].msg.message_number < max_skipped_messages =>
            /\ dlog[k].ok
            /\ dlog[k].pt = net[dlog[k].idx].pt

-----------------------------------------------------------------------------
(* SpecSkip: one sender, one chain, deliveries in any order *)

SkipInitiate ==
    /\ NoSessions
    /\ init_session("alice", "bob", GenuineBundle("bob"))

SkipSend ==
    /\ has_session("alice", "bob")
    /\ Len(net) < MaxChain
    /\ encrypt_message("alice", "bob", 1)

SkipReceive ==
    \E idx \in Undelivered("bob") :
        /\ Len(dlog) < MaxDeliveries
        /\ Receive("bob", idx)

NextSkip == SkipInitiate \/ SkipSend \/ SkipReceive

SpecSkip == Init /\ [][NextSkip]_vars

ReceivingState(session) ==
    <<session.receiving_chain_key, session.receiving_chain_length,
      session.skipped_message_keys>>

\* C6: a decrypt that returns "Too many skipped messages" leaves the
\* session's receiving chain key, receiving counter and skipped-key map as
\* they were before the call.
C6_FailedDecryptKeepsState ==
    [][(/\ has_session("bob", "alice")
        /\ last'.op = "decrypt_message"
        /\ last'.err = "Too many skipped messages")
       => ReceivingState(clients'["bob"].sessions["alice"]) =
              ReceivingState(clients["bob"].sessions["alice"])]_vars

\* C7: in every reachable state every session's skipped-key map holds at
\* most max_skipped_messages entries.
C7_SkippedMapBounded ==
    \A c \in Clients : \A p \in DOMAIN clients[c].sessions :
        Cardinality(DOMAIN clients[c].sessions[p].skipped_message_keys)
            <= max_skipped_messages

\* the first k deliveries were of messages 6, 5, 4, ... in that order
DeliveredDownFromSix(k) ==
    /\ k <= Len(dlog)
    /\ \A j \in 1 .. k : dlog[j].idx = 7 - j

\* C8: with max_skipped_messages = 4, delivering message 6 of one chain
\* first fails with "Too many skipped messages"; messages 5, 4, 3 and 2
\* delivered after it in that order each succeed with their plaintext.
C8_SixFailsRestSucceed ==
    \A k \in 1 .. 5 :
        DeliveredDownFromSix(k) =>
            IF k = 1
            THEN ~dlog[k].ok /\ dlog[k].err = "Too many skipped messages"
            ELSE dlog[k].ok /\ dlog[k].pt = net[dlog[k].idx].pt

C8_Witness ==
    /\ Len(net) = 6
    /\ DeliveredDownFromSix(5)
    /\ dlog[1].err = "Too many skipped messages"
    /\ dlog[5].ok

\* C8 as stated: messages 6, 5, 4, 3 each succeed and message 2 then fails
\* with "Too many skipped messages".
C8_AsStated ==
    \A k \in 1 .. 5 :
        DeliveredDownFromSix(k) =>
            IF k <= 4
            THEN dlog[k].ok
            ELSE ~dlog[k].ok /\ dlog[k].err = "Too many skipped messages"

-----------------------------------------------------------------------------
(* Claims on Spec *)

LastDelivery == dlog[Len(dlog)]

\* C9: a responder initialisation that fails changes nothing in the Client
\* (no session for the peer, same session count), and a responder
\* initialisation from an unaltered first message succeeds and creates the
\* session, also after earlier failed attempts.
C9_FailedInitLeavesNothing ==
    [][\A c \in Clients :
          (/\ last'.op = "init_receiving_session"
           /\ last'.client = c
           /\ ~has_session(c, Peer(c)))
          => /\ ~last'.ok => clients' = clients
             /\ ~LastDelivery'.tampered =>
                    /\ last'.ok
                    /\ Peer(c) \in DOMAIN clients'[c].sessions]_vars

\* a failed attempt, then a successful one for the same peer
C9_Witness ==
    /\ last.op = "init_receiving_session"
    /\ last.ok
    /\ has_session(last.client, last.peer)
    /\ \E k \in 1 .. (Len(dlog) - 1) :
          /\ dlog[k].to = last.client
          /\ ~dlog[k].ok

\* C10: init_session or init_receiving_session for a peer that already has a
\* session returns "Session already exists" and leaves every session as it
\* was, so the existing session behaves as if the call had not been made.
C10_OccupiedPeerRejected ==
    [][\A c \in Clients :
          (/\ last'.op \in {"init_session", "init_receiving_session"}
           /\ last'.client = c
           /\ has_session(c, Peer(c)))
          => /\ last'.err = "Session already exists"
             /\ clients' = clients]_vars

\* a refused call on a peer whose session has already sent and received
C10_Witness ==
    /\ last.err = "Session already exists"
    /\ has_session(last.client, last.peer)
    /\ clients[last.client].sessions[last.peer].sending_chain_length > 0
    /\ \E k \in DOMAIN dlog : dlog[k].to = last.client /\ dlog[k].ok

-----------------------------------------------------------------------------
(* SpecSessions: the session table of each Client under every call that
   touches it, for two contact ids per Client *)

ContactIds(c) == {Peer(c), "carol"}

AllContactIds == Clients \cup {"carol"}

SessionsInitSession ==
    \E c \in Clients : \E contact_id \in ContactIds(c) : \E forged \in BOOLEAN :
        /\ rng < MaxRng
        /\ init_session(c, contact_id, IF forged THEN ForgedBundle(Peer(c))
                                       ELSE GenuineBundle(Peer(c)))

SessionsRemove ==
    \E c \in Clients : \E contact_id \in ContactIds(c) :
        remove_session(c, contact_id)

SessionsEncrypt ==
    \E c \in Clients : \E contact_id \in ContactIds(c) :
        /\ rng < MaxRng
        /\ encrypt_message(c, contact_id, 1)

SessionsDecrypt ==
    \E c \in Clients : \E contact_id \in ContactIds(c) : \E idx \in DOMAIN net :
        /\ net[idx].from # c
        /\ ~Delivered(idx, FALSE)
        /\ decrypt_message(c, contact_id, idx, FALSE)

SessionsInitReceiving ==
    \E c \in Clients : \E contact_id \in ContactIds(c) : \E idx \in DOMAIN net :
        /\ net[idx].from # c
        /\ ~Delivered(idx, FALSE)
        /\ init_receiving_session_with_ephemeral(c, contact_id, IdentityPublic(Peer(c)),
                                                 idx, FALSE)

NextSessions ==
    \/ SessionsInitSession
    \/ SessionsRemove
    \/ SessionsEncrypt
    \/ SessionsDecrypt
    \/ SessionsInitReceiving

SpecSessions == Init /\ [][NextSessions]_vars

SessionCreating == {"init_session", "init_receiving_session"}

\* C11: a step creates the session of (client, peer) exactly when it is a
\* successful session-creating call for that peer, removes it exactly when
\* it is remove_session for that peer, and changes no other entry; the
\* session count is the number of peers holding a session; and an
\* init_session that directly follows remove_session for the same peer is
\* not refused as occupied.
C11_SessionTable ==
    [][/\ \A c \in Clients : \A p \in AllContactIds :
            LET called == last'.client = c /\ last'.peer = p
            IN has_session(c, p)' =
                  IF called /\ last'.op \in SessionCreating /\ last'.ok THEN TRUE
                  ELSE IF called /\ last'.op = "remove_session" THEN FALSE
                  ELSE has_session(c, p)
       /\ \A c \in Clients :
            active_sessions_count(c)' =
                Cardinality({p \in AllContactIds : has_session(c, p)'})
       /\ (/\ last.op = "remove_session"
           /\ last'.op = "init_session"
           /\ last'.client = last.client
           /\ last'.peer = last.peer)
          => last'.err # "Session already exists"]_vars

\* remove_session has just removed one of the two sessions of a Client
C11_Witness ==
    /\ last.op = "remove_session"
    /\ last.pt = 1
    /\ ~has_session(last.client, last.peer)
    /\ active_sessions_count(last.client) = 1

\* C12: encrypt_message and decrypt_message for a peer without a session
\* return "No session with contact" and leave every Client as it was.
C12_NoSessionChangesNothing ==
    [][\A c \in Clients : \A p \in AllContactIds :
          (/\ last'.op \in {"encrypt_message", "decrypt_message"}
           /\ last'.client = c
           /\ last'.peer = p
           /\ ~has_session(c, p))
          => /\ last'.err = "No session with contact"
             /\ clients' = clients
             /\ net' = net]_vars

\* the call was refused while another peer of the same Client holds a session
C12_Witness ==
    /\ last.op \in {"encrypt_message", "decrypt_message"}
    /\ last.err = "No session with contact"
    /\ ~has_session(last.client, last.peer)
    /\ active_sessions_count(last.client) = 1

SignatureFailed == "Signature verification failed"

\* C13: an init_session refused for its bundle signature leaves the Client
\* and the RNG-derived state as they were, and an init_session for the same
\* peer that directly follows it and passes the signature check succeeds
\* and creates the session.
C13_FailedInitSessionLeavesNothing ==
    [][/\ (last'.op = "init_session" /\ last'.err = SignatureFailed)
          => clients' = clients
       /\ (/\ last.op = "init_session"
           /\ last.err = SignatureFailed
           /\ last'.op = "init_session"
           /\ last'.client = last.client
           /\ last'.peer = last.peer
           /\ last'.err # SignatureFailed)
          => /\ last'.ok
             /\ has_session(last.client, last.peer)']_vars

\* an init_session has failed on its signature and the next one holds
C13_Witness ==
    /\ last.op = "init_session"
    /\ last.err = SignatureFailed
    /\ ~has_session(last.client, last.peer)
    /\ LET handshake == perform_as_initiator(
                            clients[last.client].key_manager.identity_key,
                            GenuineBundle(Peer(last.client)), rng)
       IN handshake.ok /\ rng < MaxRng

-----------------------------------------------------------------------------
(* KeyManager: restore, rotation and prekey history (keys.rs) *)

prekey_cleanup_period_secs == 2592000

\* Option::None of current_signed_prekey and of get_prekey
NoPrekey == [key_pair |-> NoKey, signature |-> <<>>, created_at |-> 0, key_id |-> 0]

KeyManager_new ==
    [identity_key |-> NoKey,
     signing_key |-> NoKey,
     current_signed_prekey |-> NoPrekey,
     old_prekeys |-> EmptyMap,
     next_prekey_id |-> 1]

\* the prekey slot is filled as given: created_at 0, key_id 1; the id
\* counter is not touched and the signature is stored unchecked
initialize_from_keys(key_manager, identity, signing, prekey, prekey_signature) ==
    [key_manager EXCEPT
       !.identity_key = identity,
       !.signing_key = signing,
       !.current_signed_prekey =
           [key_pair |-> prekey, signature |-> prekey_signature,
            created_at |-> 0, key_id |-> 1]]

cleanup_old_prekeys(key_manager, max_age_seconds) ==
    LET old == key_manager.old_prekeys
        kept == {k \in DOMAIN old : now - old[k].created_at < max_age_seconds}
    IN [key_manager EXCEPT !.old_prekeys = [k \in kept |-> old[k]]]

rotate_signed_prekey_stale_signature(key_manager, key_pair) ==
    LET prekey_store ==
            [key_pair |-> key_pair,
             signature |-> key_manager.current_signed_prekey.signature,
             created_at |-> now,
             key_id |-> key_manager.next_prekey_id]
        current == key_manager.current_signed_prekey
    IN cleanup_old_prekeys(
           [key_manager EXCEPT
              !.next_prekey_id = @ + 1,
              !.old_prekeys = IF current = NoPrekey THEN @
                              ELSE MapInsert(@, current.key_id, current),
              !.current_signed_prekey = prekey_store],
           prekey_cleanup_period_secs)

\* new pair, signed; id taken from the counter; the previous current prekey
\* is archived under its own key_id; then the history is aged out
rotate_signed_prekey(key_manager, key_pair) ==
    LET prekey_store ==
            [key_pair |-> key_pair,
             signature |-> sign(key_manager.signing_key,
                                from_private_key_to_public_key(key_pair)),
             created_at |-> now,
             key_id |-> key_manager.next_prekey_id]
        current == key_manager.current_signed_prekey
    IN cleanup_old_prekeys(
           [key_manager EXCEPT
              !.next_prekey_id = @ + 1,
              !.old_prekeys = IF current = NoPrekey THEN @
                              ELSE MapInsert(@, current.key_id, current),
              !.current_signed_prekey = prekey_store],
           prekey_cleanup_period_secs)

get_prekey(key_manager, key_id) ==
    IF /\ key_manager.current_signed_prekey # NoPrekey
       /\ key_manager.current_signed_prekey.key_id = key_id
    THEN key_manager.current_signed_prekey
    ELSE IF key_id \in DOMAIN key_manager.old_prekeys
         THEN key_manager.old_prekeys[key_id]
         ELSE NoPrekey

\* Client::from_keys with the keys and signature a Client exported earlier
Client_from_keys(identity, signing, prekey, prekey_signature) ==
    [key_manager |-> initialize_from_keys(KeyManager_new, identity, signing, prekey,
                                          prekey_signature),
     sessions |-> EmptyMap]

BundleCall(op, c, bundle) ==
    [op |-> op, client |-> c, peer |-> "none", ok |-> TRUE, err |-> "none",
     pt |-> 0, idx |-> 0, bundle |-> bundle]

\* X3DHProtocol::generate_registration_bundle: three fresh pairs, private
\* halves dropped
generate_registration_bundle(identity, signed_prekey, signing) ==
    X3DHPublicKeyBundle(
        from_private_key_to_public_key(identity),
        from_private_key_to_public_key(signed_prekey),
        sign(signing, from_private_key_to_public_key(signed_prekey)),
        from_signature_private_to_public(signing))

get_registration_bundle(c) ==
    /\ last' = BundleCall("get_registration_bundle", c,
                          generate_registration_bundle(rng, rng + 1, rng + 2))
    /\ rng' = rng + 3
    /\ UNCHANGED <<clients, net, dlog, now, hs>>

\* what CryptoCore::export_registration_bundle_json serialises
export_bundle(c) ==
    /\ last' = BundleCall("export_registration_bundle", c,
                          export_registration_bundle(clients[c].key_manager))
    /\ UNCHANGED <<clients, net, dlog, rng, now, hs>>

rotate_prekey(c) ==
    /\ clients' = [clients EXCEPT ![c].key_manager = rotate_signed_prekey(@, rng)]
    /\ rng' = rng + 1
    /\ last' = Call("rotate_prekey", c, "none", Ok(0), 0)
    /\ UNCHANGED <<net, dlog, now, hs>>

-----------------------------------------------------------------------------
(* SpecKeys: each KeyManager fresh or restored, then rotations, bundle
   requests and the passing of time *)

TickSecs == 15 * 24 * 60 * 60

InitKeys ==
    /\ now = 0
    /\ \E restored \in SUBSET Clients :
          clients = [c \in Clients |->
              LET base == IF c = "alice" THEN 0 ELSE 3
              IN IF c \in restored
                 THEN Client_from_keys(base + 1, base + 2, base + 3,
                          sign(base + 2, from_private_key_to_public_key(base + 3)))
                 ELSE Client_new(base + 1, base + 2, base + 3)]
    /\ rng = 7
    /\ net = <<>>
    /\ dlog = <<>>
    /\ last = NoCall
    /\ hs = NoHandshake

KeysRotate ==
    \E c \in Clients :
        /\ rng < MaxRng
        /\ rotate_prekey(c)

KeysGetBundle ==
    \E c \in Clients :
        /\ rng < MaxRng
        /\ get_registration_bundle(c)

KeysExport == \E c \in Clients : export_bundle(c)

KeysTick ==
    /\ now < MaxTicks * TickSecs
    /\ now' = now + TickSecs
    /\ UNCHANGED <<clients, net, dlog, rng, last, hs>>

NextKeys == KeysRotate \/ KeysGetBundle \/ KeysExport \/ KeysTick

SpecKeys == InitKeys /\ [][NextKeys]_vars

\* C15: the bundle the Client's registration-bundle call returns is the one
\* built from its KeyManager's identity key, current signed prekey,
\* signature and verifying key.
C15_BundleFromKeyManager ==
    last.op = "get_registration_bundle" =>
        last.bundle = export_registration_bundle(clients[last.client].key_manager)

StoredKeyIds(key_manager) ==
    (IF key_manager.current_signed_prekey = NoPrekey THEN {}
     ELSE {key_manager.current_signed_prekey.key_id})
    \cup DOMAIN key_manager.old_prekeys

\* C16: whenever a KeyManager gets a new current signed prekey, its key_id
\* is greater than the key_id of every prekey the KeyManager held before,
\* current or archived.
C16_KeyIdsIncrease ==
    [][\A c \in Clients :
          LET before == clients[c].key_manager
              after == clients'[c].key_manager
          IN after.current_signed_prekey # before.current_signed_prekey =>
                 \A id \in StoredKeyIds(before) :
                     id < after.current_signed_prekey.key_id]_vars

\* C17: a prekey that get_prekey returns for a key_id is returned for that
\* key_id after every later step too, unless it has aged past the cleanup
\* period, in which case get_prekey returns none.
C17_ArchivedPrekeyRetrievable ==
    [][\A c \in Clients :
          LET before == clients[c].key_manager
              after == clients'[c].key_manager
          IN \A key_id \in 1 .. before.next_prekey_id :
                 get_prekey(before, key_id) # NoPrekey =>
                     \/ get_prekey(after, key_id) = get_prekey(before, key_id)
                     \/ /\ get_prekey(after, key_id) = NoPrekey
                        /\ now' - get_prekey(before, key_id).created_at
                               >= prekey_cleanup_period_secs]_vars

-----------------------------------------------------------------------------
(* The responder entry points without a remote_ephemeral parameter *)

\* Client::init_receiving_session: after the occupancy check it returns Err
init_receiving_session(c, contact_id, remote_identity, idx) ==
    /\ last' = Call("client.init_receiving_session", c, contact_id,
                    IF contact_id \in DOMAIN clients[c].sessions
                    THEN Err("Session already exists")
                    ELSE Err("init_receiving_session requires remote_ephemeral parameter"),
                    idx)
    /\ UNCHANGED <<clients, net, dlog, rng, now, hs>>

\* api::crypto::CryptoCore::init_receiving_session
CryptoCore_init_receiving_session(c, contact_id, remote_bundle, idx) ==
    init_receiving_session(c, contact_id, remote_bundle.identity_public, idx)

\* api::messaging::init_receiving_session
messaging_init_receiving_session(c, contact_id, remote_bundle, idx) ==
    init_receiving_session(c, contact_id, remote_bundle.identity_public, idx)

\* what the responder computes from a first message with a given signed
\* prekey: perform_as_responder, then new_responder_session
ResponderInit(c, remote_identity, first_message, local_signed_prekey) ==
    new_responder_session(
        perform_as_responder(clients[c].key_manager.identity_key, local_signed_prekey,
                             remote_identity, first_message.dh_public_key),
        clients[c].key_manager.identity_key, first_message, rng, rng + 1)

RetainedPrekeys(key_manager) ==
    {key_manager.current_signed_prekey.key_pair}
    \cup {key_manager.old_prekeys[k].key_pair : k \in DOMAIN key_manager.old_prekeys}

-----------------------------------------------------------------------------
(* SpecResponder: alice initiates and sends; bob may rotate his signed
   prekey at any moment and takes first messages through every entry point *)

RespInitiate ==
    /\ NoSessions
    /\ init_session("alice", "bob", GenuineBundle("bob"))

RespSend ==
    \E plaintext \in Plaintexts :
        /\ has_session("alice", "bob")
        /\ Len(net) < MaxRespMsgs
        /\ encrypt_message("alice", "bob", plaintext)

RespRotate ==
    /\ clients["bob"].key_manager.next_prekey_id <= MaxRotations + 1
    /\ rotate_prekey("bob")

RespEntryClient ==
    \E idx \in Undelivered("bob") :
        init_receiving_session("bob", "alice", IdentityPublic("alice"), idx)

RespEntryCryptoCore ==
    \E idx \in Undelivered("bob") :
        CryptoCore_init_receiving_session("bob", "alice", GenuineBundle("alice"), idx)

RespEntryMessaging ==
    \E idx \in Undelivered("bob") :
        messaging_init_receiving_session("bob", "alice", GenuineBundle("alice"), idx)

RespReceive == \E idx \in Undelivered("bob") : Receive("bob", idx)

NextResponder ==
    \/ RespInitiate
    \/ RespSend
    \/ RespRotate
    \/ RespEntryClient
    \/ RespEntryCryptoCore
    \/ RespEntryMessaging
    \/ RespReceive

SpecResponder == Init /\ [][NextResponder]_vars

\* C14: Client::init_receiving_session (and each entry point delegating to
\* it) called for a peer without a session, with a first message that the
\* responder's current signed prekey opens, succeeds, returns the first
\* plaintext and creates the session.
C14_PlainEntryCreatesSession ==
    [][(/\ last'.op = "client.init_receiving_session"
        /\ ~has_session(last'.client, last'.peer)
        /\ ResponderInit(last'.client, IdentityPublic(last'.peer),
                         net[last'.idx].msg,
                         clients[last'.client].key_manager
                             .current_signed_prekey.key_pair).result.ok)
       => /\ last'.ok
          /\ last'.pt = net[last'.idx].pt
          /\ last'.peer \in DOMAIN clients'[last'.client].sessions]_vars

\* C18: a first message that one of the responder's retained signed prekeys
\* (current or archived) opens is accepted: the call succeeds, returns the
\* first plaintext and creates the session.
C18_RotatedPrekeyStillAnswers ==
    [][(/\ last'.op = "init_receiving_session"
        /\ ~has_session(last'.client, last'.peer)
        /\ \E k \in RetainedPrekeys(clients[last'.client].key_manager) :
              ResponderInit(last'.client, IdentityPublic(last'.peer),
                            net[last'.idx].msg, k).result.ok)
       => /\ last'.ok
          /\ last'.pt = net[last'.idx].pt
          /\ last'.peer \in DOMAIN clients'[last'.client].sessions]_vars

-----------------------------------------------------------------------------
(* encrypt failing after the key derivation *)

\* encrypt up to the first fallible call after kdf_ck: the chain key and the
\* counter are already written when nonce generation, the key-length
\* conversion or the AEAD returns Err
encrypt_failed_after_kdf(session) ==
    [session EXCEPT !.sending_chain_key = kdf_ck(session.sending_chain_key).next_chain,
                    !.sending_chain_length = @ + 1]

encrypt_message_failing_restored(c, contact_id) ==
    /\ contact_id \in DOMAIN clients[c].sessions
    /\ last' = Call("encrypt_message", c, contact_id, Err("Encryption failed"), 0)
    /\ UNCHANGED <<clients, net, dlog, rng, now, hs>>

\* Client::encrypt_message when the session's encrypt returns Err: the
\* session stays in the map as encrypt left it
encrypt_message_failing(c, contact_id) ==
    /\ contact_id \in DOMAIN clients[c].sessions
    /\ clients' = [clients EXCEPT ![c].sessions[contact_id] =
                       encrypt_failed_after_kdf(@)]
    /\ last' = Call("encrypt_message", c, contact_id, Err("Encryption failed"), 0)
    /\ UNCHANGED <<net, dlog, rng, now, hs>>

-----------------------------------------------------------------------------
(* SpecLossy: both sides send, an encrypt may fail after deriving its key,
   and the transport may drop or reorder within the sender's current chain *)

LossyInitiate ==
    /\ NoSessions
    /\ init_session("alice", "bob", GenuineBundle("bob"))

LossySend ==
    \E c \in Clients :
        /\ has_session(c, Peer(c))
        /\ Len(net) < MaxLossyMsgs
        /\ encrypt_message(c, Peer(c), 1)

LossySendFails ==
    \E c \in Clients :
        /\ has_session(c, Peer(c))
        /\ clients[c].sessions[Peer(c)].sending_chain_length < MaxLossyMsgs
        /\ encrypt_message_failing(c, Peer(c))

LossyReceive ==
    \E c \in Clients : \E idx \in Undelivered(c) :
        /\ OnCurrentChain(idx)
        /\ Receive(c, idx)

NextLossy == LossyInitiate \/ LossySend \/ LossySendFails \/ LossyReceive

SpecLossy == Init /\ [][NextLossy]_vars

\* C20: every encrypt_message on an existing session, whether it returns a
\* message or an error, moves the sending chain one kdf_ck step and the
\* counter by one; and a message it emits differs from every message
\* emitted before in its (dh_public_key, message_number) pair and in its
\* message key.
C20_EveryEncryptAdvances ==
    [][\A c \in Clients :
          (/\ last'.op = "encrypt_message"
           /\ last'.client = c
           /\ has_session(c, Peer(c)))
          => LET before == clients[c].sessions[Peer(c)]
                 after == clients'[c].sessions[Peer(c)]
             IN /\ after.sending_chain_length = before.sending_chain_length + 1
                /\ after.sending_chain_key = kdf_ck(before.sending_chain_key).next_chain
                /\ last'.ok =>
                      /\ Len(net') = Len(net) + 1
                      /\ \A i \in DOMAIN net :
                            /\ <<net[i].msg.dh_public_key, net[i].msg.message_number>>
                                   # <<net'[Len(net')].msg.dh_public_key,
                                       net'[Len(net')].msg.message_number>>
                            /\ net[i].msg.ciphertext.key
                                   # net'[Len(net')].msg.ciphertext.key]_vars

\* a message was emitted after a failed encrypt on the same chain: its
\* number is one past the number the failed call consumed
C20_Witness ==
    /\ last.op = "encrypt_message"
    /\ last.ok
    /\ net[last.idx].msg.message_number = 2
    /\ Cardinality(EarlierOnChain(last.idx)) = 1

-----------------------------------------------------------------------------
(* Ageing out skipped keys *)

\* retain() keeps a key when it has a timestamp and now - timestamp is below
\* max_age_seconds; the timestamps of removed keys go with them
cleanup_old_skipped_keys(session, max_age_seconds) ==
    LET keys == session.skipped_message_keys
        timestamps == session.skipped_key_timestamps
        kept == {n \in DOMAIN keys :
                    /\ n \in DOMAIN timestamps
                    /\ now - timestamps[n] < max_age_seconds}
    IN [session EXCEPT
          !.skipped_message_keys = [n \in kept |-> keys[n]],
          !.skipped_key_timestamps = [n \in DOMAIN timestamps \cap kept |-> timestamps[n]]]

\* the call's argument is carried in the pt field of the call record
cleanup_all_skipped_keys(c, max_age_seconds) ==
    /\ clients' = [clients EXCEPT ![c].sessions =
                       [p \in DOMAIN @ |-> cleanup_old_skipped_keys(@[p], max_age_seconds)]]
    /\ last' = Call("cleanup_all_skipped_keys", c, "none", Ok(max_age_seconds), 0)
    /\ UNCHANGED <<net, dlog, rng, now, hs>>

-----------------------------------------------------------------------------
(* SpecCleanup: one chain delivered in any order while the clock advances
   second by second and either Client ages out its skipped keys *)

CleanupInitiate ==
    /\ NoSessions
    /\ init_session("alice", "bob", GenuineBundle("bob"))

CleanupSend ==
    /\ has_session("alice", "bob")
    /\ Len(net) < MaxCleanupMsgs
    /\ encrypt_message("alice", "bob", 1)

CleanupReceive == \E idx \in Undelivered("bob") : Receive("bob", idx)

CleanupTick ==
    /\ now < MaxCleanupTicks
    /\ now' = now + 1
    /\ UNCHANGED <<clients, net, dlog, rng, last, hs>>

CleanupCall ==
    \E c \in Clients : \E max_age_seconds \in 1 .. MaxCleanupAge :
        cleanup_all_skipped_keys(c, max_age_seconds)

NextCleanup ==
    \/ CleanupInitiate
    \/ CleanupSend
    \/ CleanupReceive
    \/ CleanupTick
    \/ CleanupCall

SpecCleanup == Init /\ [][NextCleanup]_vars

\* C21: cleanup_all_skipped_keys(max_age) removes, in every session of the
\* Client, exactly the skipped keys whose age exceeds max_age: a key of age
\* at most max_age stays stored with its value and still decrypts its
\* message, a key of greater age is gone.  (A step that leaves the clock
\* alone and ends with the cleanup call on record is a cleanup call.)
C21_CleanupRemovesExactlyOld ==
    [][\A c \in Clients :
          (/\ last'.op = "cleanup_all_skipped_keys"
           /\ last'.client = c
           /\ now' = now)
          => \A p \in DOMAIN clients[c].sessions :
                LET before == clients[c].sessions[p]
                    after == clients'[c].sessions[p]
                IN \A n \in DOMAIN before.skipped_message_keys :
                      IF now - before.skipped_key_timestamps[n] > last'.pt
                      THEN n \notin DOMAIN after.skipped_message_keys
                      ELSE /\ n \in DOMAIN after.skipped_message_keys
                           /\ after.skipped_message_keys[n] =
                                  before.skipped_message_keys[n]
                           /\ \A idx \in Undelivered(c) :
                                 net[idx].msg.message_number = n =>
                                     decrypt(after, net[idx].msg, rng).result.ok]_vars

-----------------------------------------------------------------------------
(* Session snapshots (double_ratchet.rs to_serializable / from_serializable).
   Keys are Vec<u8> in the classic suite, so as_ref().to_vec() and the
   *_from_bytes conversions carry the same bytes; Option fields are mapped
   through.  session_id and contact_id are copied too; the model's session
   carries neither, as encrypt and decrypt read neither. *)

to_serializable(session) ==
    [suite_id |-> session.suite_id,
     root_key |-> session.root_key,
     sending_chain_key |-> session.sending_chain_key,
     sending_chain_length |-> session.sending_chain_length,
     receiving_chain_key |-> session.receiving_chain_key,
     receiving_chain_length |-> session.receiving_chain_length,
     dh_ratchet_private |-> session.dh_ratchet_private,
     dh_ratchet_public |-> session.dh_ratchet_public,
     remote_dh_public |-> session.remote_dh_public,
     previous_sending_length |-> session.previous_sending_length,
     skipped_message_keys |->
         [n \in DOMAIN session.skipped_message_keys |-> session.skipped_message_keys[n]],
     skipped_key_timestamps |-> session.skipped_key_timestamps]

from_serializable_without_skipped(data) ==
    [suite_id |-> data.suite_id,
     root_key |-> data.root_key,
     sending_chain_key |-> data.sending_chain_key,
     sending_chain_length |-> data.sending_chain_length,
     receiving_chain_key |-> data.receiving_chain_key,
     receiving_chain_length |-> data.receiving_chain_length,
     dh_ratchet_private |-> data.dh_ratchet_private,
     dh_ratchet_public |-> data.dh_ratchet_public,
     remote_dh_public |-> data.remote_dh_public,
     previous_sending_length |-> data.previous_sending_length,
     skipped_message_keys |-> EmptyMap,
     skipped_key_timestamps |-> EmptyMap]

from_serializable(data) ==
    [suite_id |-> data.suite_id,
     root_key |-> data.root_key,
     sending_chain_key |-> data.sending_chain_key,
     sending_chain_length |-> data.sending_chain_length,
     receiving_chain_key |-> data.receiving_chain_key,
     receiving_chain_length |-> data.receiving_chain_length,
     dh_ratchet_private |-> data.dh_ratchet_private,
     dh_ratchet_public |-> data.dh_ratchet_public,
     remote_dh_public |-> data.remote_dh_public,
     previous_sending_length |-> data.previous_sending_length,
     skipped_message_keys |->
         [n \in DOMAIN data.skipped_message_keys |-> data.skipped_message_keys[n]],
     skipped_key_timestamps |-> data.skipped_key_timestamps]

-----------------------------------------------------------------------------
(* SpecSnapshot: both sides send, the transport may drop and may reorder
   within the sender's current chain; at one moment the application
   serialises one session, later it deserialises the stored bytes *)

SnapInitiate ==
    /\ NoSessions
    /\ init_session("alice", "bob", GenuineBundle("bob"))

SnapSend ==
    \E c \in Clients :
        /\ has_session(c, Peer(c))
        /\ Len(net) < MaxSnapMsgs
        /\ encrypt_message(c, Peer(c), 1)

SnapReceive ==
    \E c \in Clients : \E idx \in Undelivered(c) :
        /\ OnCurrentChain(idx)
        /\ Receive(c, idx)

\* original is the live session the bytes were taken from, peer the sessions
\* the other side held at that moment
SnapTake ==
    \E c \in Clients :
        /\ ~hs.run
        /\ has_session(c, Peer(c))
        /\ hs' = [run |-> TRUE, stage |-> "stored", owner |-> c,
                  original |-> clients[c].sessions[Peer(c)],
                  data |-> to_serializable(clients[c].sessions[Peer(c)]),
                  restored |-> EmptyMap,
                  peer |-> clients[Peer(c)].sessions]
        /\ UNCHANGED <<clients, net, dlog, rng, now, last>>

SnapRestore ==
    /\ hs.run
    /\ hs.stage = "stored"
    /\ hs' = [hs EXCEPT !.stage = "restored", !.restored = from_serializable(hs.data)]
    /\ UNCHANGED <<clients, net, dlog, rng, now, last>>

NextSnapshot ==
    \/ SnapInitiate
    \/ SnapSend
    \/ SnapReceive
    \/ SnapTake
    \/ SnapRestore

SpecSnapshot == Init /\ [][NextSnapshot]_vars

C24_UsedKeysUnobtainable ==
    \A c \in Clients : \A p \in DOMAIN clients[c].sessions :
        LET session == clients[c].sessions[p]
            MessageKeysFrom(chain_key) ==
                LET walk[i \in 0 .. MaxSnapMsgs] ==
                        IF i = 0 THEN chain_key ELSE kdf_ck(walk[i - 1]).next_chain
                IN {kdf_ck(walk[i]).message_key : i \in 0 .. MaxSnapMsgs}
            seen == {net[i].msg.dh_public_key : i \in DOMAIN net}
                    \cup {IdentityPublic(q) : q \in Clients}
            obtainable ==
                {session.skipped_message_keys[n] :
                     n \in DOMAIN session.skipped_message_keys}
                \cup MessageKeysFrom(session.receiving_chain_key)
                \cup MessageKeysFrom(session.sending_chain_key)
                \cup UNION {MessageKeysFrom(
                                kdf_rk(session.root_key,
                                       kem_decapsulate(session.dh_ratchet_private,
                                                       public)).chain_key) :
                            public \in seen}
        IN \A k \in DOMAIN dlog :
              (dlog[k].to = c /\ dlog[k].ok) =>
                  net[dlog[k].idx].msg.ciphertext.key \notin obtainable

\* message 2 of a chain was opened first and message 0 after it from its
\* skipped key, while the key of message 1 is still stored
C24_Witness ==
    \E c \in Clients :
        /\ has_session(c, Peer(c))
        /\ DOMAIN clients[c].sessions[Peer(c)].skipped_message_keys = {1}
        /\ \E j \in DOMAIN dlog : \E k \in DOMAIN dlog :
              /\ j < k
              /\ dlog[j].to = c /\ dlog[j].ok
              /\ dlog[k].to = c /\ dlog[k].ok
              /\ net[dlog[j].idx].msg.message_number = 2
              /\ net[dlog[k].idx].msg.message_number = 0
              /\ net[dlog[j].idx].msg.dh_public_key = net[dlog[k].idx].msg.dh_public_key

-----------------------------------------------------------------------------
(* Sealing the private keys under a password (crypto/master_key.rs) *)

SALT_LENGTH == 32

salt_length == 32

pbkdf2_iterations == 100000

Passwords == {"", "Password123", "Password124"}

PrivateKeys_new(identity_secret, signing_key, signed_prekey_secret) ==
    [identity_secret |-> identity_secret,
     signing_key |-> signing_key,
     signed_prekey_secret |-> signed_prekey_secret]

\* PBKDF2-HMAC-SHA256: a function of password, salt and iteration count
derive_master_key(password, salt) ==
    IF salt.len # salt_length
    THEN [ok |-> FALSE, key |-> <<>>, err |-> "Invalid salt length"]
    ELSE IF password = ""
    THEN [ok |-> FALSE, key |-> <<>>, err |-> "Password cannot be empty"]
    ELSE [ok |-> TRUE, key |-> <<password, salt.bytes, pbkdf2_iterations>>,
          err |-> "none"]

generate_salt(random) == [len |-> SALT_LENGTH, bytes |-> random]

\* nonce || ciphertext, the nonce fresh for every call
encrypt_data(cipher, data, random) ==
    <<random, aead_encrypt(cipher, random, data, <<>>)>>

decrypt_data(cipher, data) ==
    IF Len(data) < 2
    THEN Err("Invalid ciphertext: too short")
    ELSE aead_decrypt(cipher, data[1], data[2], <<>>)

encrypt_private_keys(keys, master_key, salt, user_id, prekey_signature, random) ==
    [user_id |-> user_id,
     encrypted_identity_private |-> encrypt_data(master_key, keys.identity_secret, random),
     encrypted_signed_prekey_private |->
         encrypt_data(master_key, keys.signed_prekey_secret, random + 1),
     encrypted_signing_key |-> encrypt_data(master_key, keys.signing_key, random + 2),
     prekey_signature |-> prekey_signature,
     salt |-> salt,
     created_at |-> now]

decrypt_private_keys_swapped(stored, master_key) ==
    LET identity_bytes == decrypt_data(master_key, stored.encrypted_identity_private)
        prekey_bytes == decrypt_data(master_key, stored.encrypted_signed_prekey_private)
        signing_bytes == decrypt_data(master_key, stored.encrypted_signing_key)
    IN IF ~identity_bytes.ok THEN [ok |-> FALSE, err |-> identity_bytes.err]
       ELSE IF ~prekey_bytes.ok THEN [ok |-> FALSE, err |-> prekey_bytes.err]
       ELSE IF ~signing_bytes.ok THEN [ok |-> FALSE, err |-> signing_bytes.err]
       ELSE [ok |-> TRUE, err |-> "none",
             keys |-> PrivateKeys_new(identity_bytes.pt, prekey_bytes.pt,
                                      signing_bytes.pt)]

\* an Err carries no keys field: the Rust Result holds either keys or an error
decrypt_private_keys(stored, master_key) ==
    LET identity_bytes == decrypt_data(master_key, stored.encrypted_identity_private)
        prekey_bytes == decrypt_data(master_key, stored.encrypted_signed_prekey_private)
        signing_bytes == decrypt_data(master_key, stored.encrypted_signing_key)
    IN IF ~identity_bytes.ok THEN [ok |-> FALSE, err |-> identity_bytes.err]
       ELSE IF ~prekey_bytes.ok THEN [ok |-> FALSE, err |-> prekey_bytes.err]
       ELSE IF ~signing_bytes.ok THEN [ok |-> FALSE, err |-> signing_bytes.err]
       ELSE [ok |-> TRUE, err |-> "none",
             keys |-> PrivateKeys_new(identity_bytes.pt, signing_bytes.pt,
                                      prekey_bytes.pt)]

-----------------------------------------------------------------------------
(* SpecVault: one set of private keys is sealed under a password and the
   record is then unsealed under a password of the caller's choice *)

\* seal: a fresh salt, the master key of the password, the record
VaultSeal ==
    \E identity \in KeyIds : \E signing \in KeyIds : \E prekey \in KeyIds :
    \E password \in Passwords :
        LET keys == PrivateKeys_new(identity, signing, prekey)
            salt == generate_salt(rng)
            master_key == derive_master_key(password, salt)
        IN /\ ~hs.run
           /\ hs' = IF master_key.ok
                    THEN [run |-> TRUE, stage |-> "sealed", keys |-> keys,
                          password |-> password,
                          stored |-> encrypt_private_keys(
                                         keys, master_key.key, salt, "alice",
                                         sign(signing,
                                              from_private_key_to_public_key(prekey)),
                                         rng + 1)]
                    ELSE [run |-> TRUE, stage |-> "refused", keys |-> keys,
                          password |-> password, err |-> master_key.err]
           /\ rng' = rng + 4
           /\ UNCHANGED <<clients, net, dlog, now, last>>

\* unseal: the master key of the password and the stored salt, then the keys
VaultUnseal ==
    \E password \in Passwords :
        LET master_key == derive_master_key(password, hs.stored.salt)
        IN /\ hs.run
           /\ hs.stage = "sealed"
           /\ hs' = [run |-> TRUE, stage |-> "unsealed", keys |-> hs.keys,
                     password |-> hs.password, stored |-> hs.stored,
                     attempt |-> password,
                     result |-> IF master_key.ok
                                THEN decrypt_private_keys(hs.stored, master_key.key)
                                ELSE [ok |-> FALSE, err |-> master_key.err]]
           /\ UNCHANGED <<clients, net, dlog, rng, now, last>>

NextVault == VaultSeal \/ VaultUnseal

SpecVault == Init /\ [][NextVault]_vars

\* C26: unsealing a sealed record with the password it was sealed under
\* returns exactly the keys that were sealed; unsealing it with any other
\* password returns an error, and an error carries no keys.
C26_SealUnsealRoundTrip ==
    (hs.run /\ hs.stage = "unsealed") =>
        IF hs.attempt = hs.password
        THEN hs.result.ok /\ hs.result.keys = hs.keys
        ELSE ~hs.result.ok /\ "keys" \notin DOMAIN hs.result

\* three different keys came back from the record under the right password
C26_Witness ==
    /\ hs.run
    /\ hs.stage = "unsealed"
    /\ hs.attempt = hs.password
    /\ hs.keys.identity_secret # hs.keys.signing_key
    /\ hs.keys.signing_key # hs.keys.signed_prekey_secret
    /\ hs.keys.identity_secret # hs.keys.signed_prekey_secret
    /\ hs.result.ok
    /\ hs.result.keys = hs.keys

-----------------------------------------------------------------------------
(* Message representations outside the session *)

\* api::messaging: From<EncryptedRatchetMessage> for EncryptedMessage; the
\* serialised form has no suite_id field
EncryptedMessage_from(msg) ==
    [session_id |-> "",
     ciphertext |-> msg.ciphertext,
     dh_public_key |-> msg.dh_public_key,
     nonce |-> msg.nonce,
     message_number |-> msg.message_number,
     previous_chain_length |-> msg.previous_chain_length]

EncryptedRatchetMessage_from_unset(msg) ==
    [ciphertext |-> msg.ciphertext,
     dh_public_key |-> msg.dh_public_key,
     nonce |-> msg.nonce,
     message_number |-> msg.message_number,
     previous_chain_length |-> msg.previous_chain_length,
     suite_id |-> 0]

\* api::messaging: From<EncryptedMessage> for EncryptedRatchetMessage; the
\* suite_id is filled in from the local configuration
EncryptedRatchetMessage_from(msg) ==
    [ciphertext |-> msg.ciphertext,
     dh_public_key |-> msg.dh_public_key,
     nonce |-> msg.nonce,
     message_number |-> msg.message_number,
     previous_chain_length |-> msg.previous_chain_length,
     suite_id |-> classic_suite_id]

\* ClassicCryptoCore::encrypt_message: the wire components of a message;
\* content is Base64(nonce || ciphertext), kept as the pair
EncryptedMessageComponents(encrypted_message) ==
    [ephemeral_public_key |-> encrypted_message.dh_public_key,
     message_number |-> encrypted_message.message_number,
     content |-> <<encrypted_message.nonce, encrypted_message.ciphertext>>]

\* ClassicCryptoCore::decrypt_message: the message is rebuilt from the wire
\* components with previous_chain_length 0 and the configured suite id
uniffi_decrypt_message(c, session_id, idx) ==
    LET wire == EncryptedMessageComponents(net[idx].msg)
        encrypted_message == [dh_public_key |-> wire.ephemeral_public_key,
                              message_number |-> wire.message_number,
                              ciphertext |-> wire.content[2],
                              nonce |-> wire.content[1],
                              previous_chain_length |-> 0,
                              suite_id |-> classic_suite_id]
    IN IF session_id \notin DOMAIN clients[c].sessions
       THEN /\ last' = Call("decrypt_message", c, session_id,
                            Err("No session with contact"), idx)
            /\ UNCHANGED <<clients, net, dlog, rng, now, hs>>
       ELSE LET session == clients[c].sessions[session_id]
                d == decrypt(session, encrypted_message, rng)
            IN /\ clients' = [clients EXCEPT ![c].sessions[session_id] = d.session]
               /\ rng' = IF d.session.dh_ratchet_private # session.dh_ratchet_private
                         THEN rng + 1 ELSE rng
               /\ dlog' = Append(dlog, Delivery(c, idx, FALSE, d.result))
               /\ last' = Call("decrypt_message", c, session_id, d.result, idx)
               /\ UNCHANGED <<net, now, hs>>

\* ClassicCryptoCore::init_receiving_session: the first message is rebuilt
\* from the wire components with the suite id of the bundle passed in
uniffi_init_receiving_session(c, contact_id, key_bundle, idx) ==
    LET wire == EncryptedMessageComponents(net[idx].msg)
        encrypted_first_message == [dh_public_key |-> wire.ephemeral_public_key,
                                    message_number |-> wire.message_number,
                                    ciphertext |-> wire.content[2],
                                    nonce |-> wire.content[1],
                                    previous_chain_length |-> 0,
                                    suite_id |-> key_bundle.suite_id]
    IN IF contact_id \in DOMAIN clients[c].sessions
       THEN /\ last' = Call("init_receiving_session", c, contact_id,
                            Err("Session already exists"), idx)
            /\ UNCHANGED <<clients, net, dlog, rng, now, hs>>
       ELSE LET key_manager == clients[c].key_manager
                root_key == perform_as_responder(
                                key_manager.identity_key,
                                key_manager.current_signed_prekey.key_pair,
                                key_bundle.identity_public,
                                wire.ephemeral_public_key)
                r == new_responder_session(root_key, key_manager.identity_key,
                                           encrypted_first_message, rng, rng + 1)
            IN /\ IF r.result.ok
                  THEN /\ clients' = [clients EXCEPT ![c].sessions =
                                          MapInsert(@, contact_id, r.session)]
                       /\ rng' = rng + 1
                  ELSE UNCHANGED <<clients, rng>>
               /\ dlog' = Append(dlog, Delivery(c, idx, FALSE, r.result))
               /\ last' = Call("init_receiving_session", c, contact_id, r.result, idx)
               /\ UNCHANGED <<net, now, hs>>

-----------------------------------------------------------------------------
(* SpecWire: alice initiates, both sides send, and every message reaches its
   receiver in sending order as wire components through ClassicCryptoCore *)

WireInitiate ==
    /\ NoSessions
    /\ init_session("alice", "bob", GenuineBundle("bob"))

WireSend ==
    \E c \in Clients : \E plaintext \in Plaintexts :
        /\ has_session(c, Peer(c))
        /\ Len(net) < MaxWireMsgs
        /\ encrypt_message(c, Peer(c), plaintext)

WireReceive ==
    \E c \in Clients : \E idx \in Undelivered(c) :
        /\ \A j \in Undelivered(c) : idx <= j
        /\ IF has_session(c, Peer(c))
           THEN uniffi_decrypt_message(c, Peer(c), idx)
           ELSE uniffi_init_receiving_session(c, Peer(c), GenuineBundle(Peer(c)), idx)

NextWire == WireInitiate \/ WireSend \/ WireReceive

SpecWire == Init /\ [][NextWire]_vars

-----------------------------------------------------------------------------
(* SpecCore: several threads call encrypt_message and decrypt_message on one
   ClassicCryptoCore, which holds alice's Client behind a Mutex; bob is a
   plain Client on the other end *)

Threads == 1 .. MaxThreads

IdleThread == [pc |-> "idle"]

Mutex_unguarded(mutex, t) == TRUE

\* self.inner.lock(): the caller goes on only while no thread holds the guard
Mutex_available(mutex, t) == mutex = 0

\* create_crypto_core; serial and agree record what the same calls give when
\* made one after the other in the order in which they returned
CoreCreate ==
    /\ ~hs.run
    /\ has_session("alice", "bob")
    /\ hs' = [run |-> TRUE, mutex |-> 0,
              threads |-> [t \in Threads |-> IdleThread],
              serial |-> clients["alice"].sessions["bob"],
              agree |-> TRUE]
    /\ UNCHANGED <<clients, net, dlog, rng, now, last>>

CoreInitiate ==
    /\ NoSessions
    /\ init_session("alice", "bob", GenuineBundle("bob"))

CorePeerSend ==
    /\ has_session("bob", "alice")
    /\ Len(net) < MaxCoreMsgs
    /\ encrypt_message("bob", "alice", 1)

CorePeerReceive ==
    \E idx \in Undelivered("bob") :
        /\ \A j \in Undelivered("bob") : idx <= j
        /\ Receive("bob", idx)

\* the transport hands every message for alice to one thread, the messages
\* in the order in which they were sent
CoreInbox ==
    LET waiting == {i \in Undelivered("alice") :
                       \A t \in Threads :
                           (hs.threads[t].pc # "idle"
                            /\ hs.threads[t].op = "decrypt_message")
                           => hs.threads[t].idx # i}
    IN {i \in waiting : \A j \in waiting : i <= j}

\* a thread enters encrypt_message or decrypt_message; decrypt_message parses
\* its arguments before it asks for the lock. Idle threads are alike, so the
\* call is made by the idle thread of the lowest number.
CoreCall ==
    \E t \in Threads :
        /\ hs.run
        /\ hs.threads[t].pc = "idle"
        /\ \A u \in Threads : u < t => hs.threads[u].pc # "idle"
        /\ \/ /\ Len(net) + Cardinality({u \in Threads :
                                            /\ hs.threads[u].pc # "idle"
                                            /\ hs.threads[u].op = "encrypt_message"})
                     < MaxCoreMsgs
              /\ hs' = [hs EXCEPT !.threads[t] =
                            [pc |-> "called", op |-> "encrypt_message", arg |-> 1]]
           \/ \E idx \in CoreInbox :
                 LET wire == EncryptedMessageComponents(net[idx].msg)
                     encrypted_message ==
                         [dh_public_key |-> wire.ephemeral_public_key,
                          message_number |-> wire.message_number,
                          ciphertext |-> wire.content[2],
                          nonce |-> wire.content[1],
                          previous_chain_length |-> 0,
                          suite_id |-> classic_suite_id]
                 IN hs' = [hs EXCEPT !.threads[t] =
                              [pc |-> "called", op |-> "decrypt_message",
                               arg |-> encrypted_message, idx |-> idx]]
        /\ UNCHANGED <<clients, net, dlog, rng, now, last>>

\* the thread takes the guard and with it the session of the contact
CoreLock ==
    \E t \in Threads :
        /\ hs.run
        /\ hs.threads[t].pc = "called"
        /\ Mutex_available(hs.mutex, t)
        /\ hs' = [hs EXCEPT
                     !.mutex = t,
                     !.threads[t] = [@ EXCEPT !.pc = "locked"] @@
                                    [session |-> clients["alice"].sessions["bob"]]]
        /\ UNCHANGED <<clients, net, dlog, rng, now, last>>

\* the Client call runs on the session the thread holds, the result is
\* written, and the guard is dropped on return
CoreReturn ==
    \E t \in Threads :
        LET thread == hs.threads[t]
            released == IF hs.mutex = t THEN 0 ELSE hs.mutex
        IN /\ hs.run
           /\ thread.pc = "locked"
           /\ IF thread.op = "encrypt_message"
              THEN LET e == encrypt(thread.session, thread.arg, rng)
                       s == encrypt(hs.serial, thread.arg, rng)
                   IN /\ clients' = [clients EXCEPT !["alice"].sessions["bob"] = e.session]
                      /\ net' = Append(net, [from |-> "alice", to |-> "bob",
                                             msg |-> e.message, pt |-> thread.arg])
                      /\ rng' = rng + 1
                      /\ last' = Call("encrypt_message", "alice", "bob", Ok(0),
                                      Len(net) + 1)
                      /\ hs' = [hs EXCEPT !.mutex = released,
                                          !.threads[t] = IdleThread,
                                          !.serial = s.session,
                                          !.agree = @ /\ e.message = s.message]
                      /\ UNCHANGED <<dlog, now>>
              ELSE LET d == decrypt(thread.session, thread.arg, rng)
                       s == decrypt(hs.serial, thread.arg, rng)
                   IN /\ clients' = [clients EXCEPT !["alice"].sessions["bob"] = d.session]
                      /\ rng' = IF d.session.dh_ratchet_private
                                      # thread.session.dh_ratchet_private
                                THEN rng + 1 ELSE rng
                      /\ dlog' = Append(dlog, Delivery("alice", thread.idx, FALSE,
                                                       d.result))
                      /\ last' = Call("decrypt_message", "alice", "bob", d.result,
                                      thread.idx)
                      /\ hs' = [hs EXCEPT !.mutex = released,
                                          !.threads[t] = IdleThread,
                                          !.serial = s.session,
                                          !.agree = @ /\ d.result = s.result]
                      /\ UNCHANGED <<net, now>>

NextCore ==
    \/ CoreInitiate
    \/ CoreCreate
    \/ CorePeerSend
    \/ CorePeerReceive
    \/ CoreCall
    \/ CoreLock
    \/ CoreReturn

SpecCore == Init /\ [][NextCore]_vars

\* C27: calls made by several threads on one ClassicCryptoCore give the
\* results and the session that the same calls give when made one after the
\* other; at most one thread is inside the Client at a time; no two messages
\* of one sender carry the same message_number on the same chain; and the
\* session's sending counter counts every message emitted on its chain.
C27_CallsSerialise ==
    hs.run =>
        LET session == clients["alice"].sessions["bob"]
        IN /\ hs.agree
           /\ Cardinality({t \in Threads : hs.threads[t].pc = "locked"}) <= 1
           /\ (\A t \in Threads : hs.threads[t].pc # "locked") => session = hs.serial
           /\ \A i \in DOMAIN net : \A j \in DOMAIN net :
                 (/\ i # j
                  /\ net[i].from = net[j].from
                  /\ net[i].msg.dh_public_key = net[j].msg.dh_public_key)
                 => net[i].msg.message_number # net[j].msg.message_number
           /\ session.sending_chain_length =
                 Cardinality({i \in DOMAIN net :
                                 /\ net[i].from = "alice"
                                 /\ net[i].msg.dh_public_key = session.dh_ratchet_public})

\* one thread is inside encrypt_message while another waits for the lock with
\* its own encrypt_message, and an earlier call has already put a message on
\* the same chain
C27_Witness ==
    /\ hs.run
    /\ \E t \in Threads : \E u \in Threads :
          /\ hs.threads[t].pc = "locked"
          /\ hs.threads[t].op = "encrypt_message"
          /\ hs.threads[u].pc = "called"
          /\ hs.threads[u].op = "encrypt_message"
    /\ \E i \in DOMAIN net :
          /\ net[i].from = "alice"
          /\ net[i].msg.dh_public_key =
                 clients["alice"].sessions["bob"].dh_ratchet_public

-----------------------------------------------------------------------------
(* SpecAcross: both sides send, and the transport delivers every message
   once, unaltered, in any order, also across DH ratchet steps *)

AcrossInitiate ==
    /\ NoSessions
    /\ init_session("alice", "bob", GenuineBundle("bob"))

AcrossSend ==
    \E c \in Clients :
        /\ has_session(c, Peer(c))
        /\ Len(net) < MaxAcrossMsgs
        /\ encrypt_message(c, Peer(c), 1)

AcrossReceive ==
    \E c \in Clients : \E idx \in Undelivered(c) :
        Receive(c, idx)

NextAcross == AcrossInitiate \/ AcrossSend \/ AcrossReceive

SpecAcross == Init /\ [][NextAcross]_vars

\* C28: a message of the peer's previous sending chain that is delivered
\* after the receiver has opened a message of the peer's next chain (and so
\* has made the DH step for it) is opened and gives the plaintext that was
\* encrypted.
C28_OldChainMessageAfterDhStep ==
    \A k \in DOMAIN dlog : \A j \in DOMAIN dlog :
        (/\ j < k
         /\ dlog[j].to = dlog[k].to
         /\ dlog[j].ok
         /\ dlog[k].idx < dlog[j].idx
         /\ net[dlog[k].idx].msg.dh_public_key # net[dlog[j].idx].msg.dh_public_key)
        => /\ dlog[k].ok
           /\ dlog[k].pt = net[dlog[k].idx].pt

\* C29: a message that is the next in order on its chain is opened although
\* a message with the same message_number and another dh_public_key, sent
\* earlier by the same sender, has not been delivered yet; every delivery
\* before it had succeeded.
C29_SameNumberOnOtherChain ==
    \A k \in DOMAIN dlog :
        LET m == net[dlog[k].idx].msg
        IN (/\ \A j \in 1 .. (k - 1) : dlog[j].ok
            /\ \A i \in DOMAIN net :
                  (/\ net[i].to = dlog[k].to
                   /\ net[i].msg.dh_public_key = m.dh_public_key
                   /\ net[i].msg.message_number < m.message_number)
                  => \E j \in 1 .. (k - 1) : dlog[j].idx = i
            /\ \E i \in DOMAIN net :
                  /\ i < dlog[k].idx
                  /\ net[i].to = dlog[k].to
                  /\ net[i].msg.message_number = m.message_number
                  /\ net[i].msg.dh_public_key # m.dh_public_key
                  /\ \A j \in 1 .. (k - 1) : dlog[j].idx # i)
           => /\ dlog[k].ok
              /\ dlog[k].pt = net[dlog[k].idx].pt

-----------------------------------------------------------------------------
(* A failed decrypt with a skipped key, in Spec *)

\* C30: when a delivery fails whose message is on the current receiving
\* chain and whose number has a stored skipped key, the session after the
\* call is the session before it: the skipped key is still stored.
C30_FailedSkippedKeyKept ==
    [][\A c \in Clients :
          (/\ Len(dlog') = Len(dlog) + 1
           /\ dlog'[Len(dlog')].to = c
           /\ ~dlog'[Len(dlog')].ok
           /\ has_session(c, Peer(c))
           /\ net[dlog'[Len(dlog')].idx].msg.dh_public_key
                  = clients[c].sessions[Peer(c)].remote_dh_public
           /\ net[dlog'[Len(dlog')].idx].msg.message_number
                  \in DOMAIN clients[c].sessions[Peer(c)].skipped_message_keys)
          => /\ Peer(c) \in DOMAIN clients'[c].sessions
             /\ clients'[c].sessions[Peer(c)] = clients[c].sessions[Peer(c)]]_vars

-----------------------------------------------------------------------------
(* SpecHostile: both sides send; the transport delivers any message any
   number of times, in any order, unaltered, with altered ciphertext bytes or
   with another suite_id, and may hand the initiator a message it has made
   itself from public values *)

DeliveryKinds == {"genuine", "altered", "other_suite"}

\* what anyone can compute for an initiator session that has not made a DH
\* step: remote_dh_public is the peer's published identity key and the
\* receiving chain key is AeadKey::default()
ForgedOnPlaceholder(p, plaintext, nonce) ==
    LET associated_data == <<IdentityPublic(p), 0>>
    IN [dh_public_key |-> IdentityPublic(p),
        message_number |-> 0,
        ciphertext |-> aead_encrypt(kdf_ck(<<>>).message_key, nonce, plaintext,
                                    associated_data),
        nonce |-> nonce,
        previous_chain_length |-> 0,
        suite_id |-> classic_suite_id]

HostileInitiate ==
    /\ NoSessions
    /\ init_session("alice", "bob", GenuineBundle("bob"))

HostileSend ==
    \E c \in Clients :
        /\ has_session(c, Peer(c))
        /\ Len(net) < MaxHostileMsgs
        /\ encrypt_message(c, Peer(c), 1)

HostileForge ==
    /\ has_session("alice", "bob")
    /\ Len(net) < MaxHostileMsgs
    /\ \A i \in DOMAIN net : net[i].from # "mallory"
    /\ net' = Append(net, [from |-> "mallory", to |-> "alice",
                           msg |-> ForgedOnPlaceholder("bob", 2, 0), pt |-> 2])
    /\ UNCHANGED <<clients, dlog, rng, now, last, hs>>

\* Client::decrypt_message on the message as the transport hands it over;
\* a Client without a session is given the genuine first message
HostileDeliver ==
    \E c \in Clients : \E idx \in DOMAIN net : \E kind \in DeliveryKinds :
        LET message == CASE kind = "genuine" -> net[idx].msg
                         [] kind = "altered" -> Tampered(net[idx].msg)
                         [] kind = "other_suite" ->
                                [net[idx].msg EXCEPT !.suite_id = @ + 1]
        IN /\ net[idx].to = c
           /\ Len(dlog) < MaxHostileDeliveries
           /\ IF has_session(c, Peer(c))
              THEN LET session == clients[c].sessions[Peer(c)]
                       d == decrypt(session, message, rng)
                   IN /\ clients' = [clients EXCEPT ![c].sessions[Peer(c)] = d.session]
                      /\ rng' = IF d.session.dh_ratchet_private
                                      # session.dh_ratchet_private
                                THEN rng + 1 ELSE rng
                      /\ dlog' = Append(dlog,
                                        Delivery(c, idx, kind = "altered", d.result)
                                            @@ [kind |-> kind])
                      /\ last' = Call("decrypt_message", c, Peer(c), d.result, idx)
                      /\ UNCHANGED <<net, now, hs>>
              ELSE /\ kind = "genuine"
                   /\ init_receiving_session_with_ephemeral(
                          c, Peer(c), IdentityPublic(Peer(c)), idx, FALSE)

NextHostile == HostileInitiate \/ HostileSend \/ HostileForge \/ HostileDeliver

SpecHostile == Init /\ [][NextHostile]_vars

-----------------------------------------------------------------------------
(* SpecAltered: the transport of SpecHostile without messages of its own
   making and with no more deliveries than messages *)

AlteredDeliver ==
    /\ HostileDeliver
    /\ Len(dlog') <= MaxHostileMsgs

NextAltered == HostileInitiate \/ HostileSend \/ AlteredDeliver

SpecAltered == Init /\ [][NextAltered]_vars


\* C31: when a delivery on the current receiving chain whose number is at or
\* past the receiving counter fails with "Decryption failed", the receiving
\* counter stands one past that number afterwards, no key is stored for the
\* number, and no message of the log with that number on that chain is
\* opened by the session any more.
C31_FailedFreshKeyConsumed ==
    [][\A c \in Clients :
          (/\ Len(dlog') = Len(dlog) + 1
           /\ dlog'[Len(dlog')].to = c
           /\ dlog'[Len(dlog')].err = "Decryption failed"
           /\ has_session(c, Peer(c))
           /\ net[dlog'[Len(dlog')].idx].msg.dh_public_key
                  = clients[c].sessions[Peer(c)].remote_dh_public
           /\ net[dlog'[Len(dlog')].idx].msg.message_number
                  >= clients[c].sessions[Peer(c)].receiving_chain_length)
          => LET m == net[dlog'[Len(dlog')].idx].msg
                 after == clients'[c].sessions[Peer(c)]
             IN /\ after.receiving_chain_length = m.message_number + 1
                /\ m.message_number \notin DOMAIN after.skipped_message_keys
                /\ \A i \in DOMAIN net :
                      (/\ net[i].msg.dh_public_key = m.dh_public_key
                       /\ net[i].msg.message_number = m.message_number)
                      => ~decrypt(after, net[i].msg, rng').result.ok]_vars

\* an altered copy of a message failed under a freshly derived key, and the
\* genuine message delivered after it to the same session was rejected
C31_Witness ==
    \E j \in DOMAIN dlog : \E k \in DOMAIN dlog :
        /\ j < k
        /\ dlog[j].idx = dlog[k].idx
        /\ dlog[j].to = dlog[k].to
        /\ net[dlog[k].idx].from = Peer(dlog[k].to)
        /\ dlog[j].tampered
        /\ dlog[j].err = "Decryption failed"
        /\ ~dlog[k].tampered
        /\ dlog[k].err = "Message key not found"
        /\ has_session(dlog[k].to, Peer(dlog[k].to))
        /\ net[dlog[k].idx].msg.message_number + 1 =
               clients[dlog[k].to].sessions[Peer(dlog[k].to)].receiving_chain_length

\* C32: a message of the peer that a Client has already opened is rejected
\* when it is delivered to that Client again, unaltered, and the rejected
\* delivery leaves the session as it was.
C32_ReplayRejectedStateKept ==
    [][\A c \in Clients :
          (/\ Len(dlog') = Len(dlog) + 1
           /\ dlog'[Len(dlog')].to = c
           /\ "kind" \in DOMAIN dlog'[Len(dlog')]
           /\ dlog'[Len(dlog')].kind = "genuine"
           /\ net[dlog'[Len(dlog')].idx].from = Peer(c)
           /\ \E j \in DOMAIN dlog :
                 /\ dlog[j].to = c
                 /\ dlog[j].idx = dlog'[Len(dlog')].idx
                 /\ ~dlog[j].tampered
                 /\ dlog[j].ok
                 /\ "kind" \in DOMAIN dlog[j] => dlog[j].kind = "genuine")
          => /\ ~dlog'[Len(dlog')].ok
             /\ clients'[c].sessions[Peer(c)] = clients[c].sessions[Peer(c)]]_vars

\* C34: a delivery that returns an error for a message whose dh_public_key
\* is not the session's stored remote DH key leaves the root key, both chain
\* keys, both counters, the own DH key pair and remote_dh_public as they
\* were.
C34_FailedDhStepRolledBack ==
    [][\A c \in Clients :
          (/\ Len(dlog') = Len(dlog) + 1
           /\ dlog'[Len(dlog')].to = c
           /\ ~dlog'[Len(dlog')].ok
           /\ has_session(c, Peer(c))
           /\ net[dlog'[Len(dlog')].idx].msg.dh_public_key
                  # clients[c].sessions[Peer(c)].remote_dh_public)
          => LET before == clients[c].sessions[Peer(c)]
                 after == clients'[c].sessions[Peer(c)]
             IN /\ after.root_key = before.root_key
                /\ after.sending_chain_key = before.sending_chain_key
                /\ after.receiving_chain_key = before.receiving_chain_key
                /\ after.sending_chain_length = before.sending_chain_length
                /\ after.receiving_chain_length = before.receiving_chain_length
                /\ after.dh_ratchet_private = before.dh_ratchet_private
                /\ after.dh_ratchet_public = before.dh_ratchet_public
                /\ after.remote_dh_public = before.remote_dh_public]_vars

\* C35: a session built by init_session that has made no DH step opens no
\* message whose dh_public_key is the remote_dh_public stored at
\* construction, the peer's identity public key.
C35_PlaceholderChainNeverUsed ==
    [][\A c \in Clients :
          (/\ Len(dlog') = Len(dlog) + 1
           /\ dlog'[Len(dlog')].to = c
           /\ has_session(c, Peer(c))
           /\ clients[c].sessions[Peer(c)].remote_dh_public = IdentityPublic(Peer(c))
           /\ clients[c].sessions[Peer(c)].receiving_chain_key = <<>>
           /\ net[dlog'[Len(dlog')].idx].msg.dh_public_key = IdentityPublic(Peer(c)))
          => ~dlog'[Len(dlog')].ok]_vars

\* C36: a delivery of a message of the peer whose suite_id was changed to a
\* value that is not the session's suite_id is rejected and leaves the
\* session as it was.
C36_OtherSuiteRejected ==
    [][\A c \in Clients :
          (/\ Len(dlog') = Len(dlog) + 1
           /\ dlog'[Len(dlog')].to = c
           /\ "kind" \in DOMAIN dlog'[Len(dlog')]
           /\ dlog'[Len(dlog')].kind = "other_suite"
           /\ net[dlog'[Len(dlog')].idx].from = Peer(c)
           /\ net[dlog'[Len(dlog')].idx].msg.suite_id
                  = clients[c].sessions[Peer(c)].suite_id)
          => /\ ~dlog'[Len(dlog')].ok
             /\ clients'[c].sessions[Peer(c)] = clients[c].sessions[Peer(c)]]_vars

-----------------------------------------------------------------------------
(* Claims on SpecReorder *)

\* C33: when a delivery on the current receiving chain finds a stored
\* skipped key for its message number, the message is opened, exactly that
\* entry leaves the map, the stored count drops by one, and the session no
\* longer opens the message.
C33_SkippedKeyUsedOnce ==
    [][\A c \in Clients :
          (/\ Len(dlog') = Len(dlog) + 1
           /\ dlog'[Len(dlog')].to = c
           /\ has_session(c, Peer(c))
           /\ net[dlog'[Len(dlog')].idx].msg.dh_public_key
                  = clients[c].sessions[Peer(c)].remote_dh_public
           /\ net[dlog'[Len(dlog')].idx].msg.message_number
                  \in DOMAIN clients[c].sessions[Peer(c)].skipped_message_keys)
          => LET m == net[dlog'[Len(dlog')].idx].msg
                 before == clients[c].sessions[Peer(c)]
                 after == clients'[c].sessions[Peer(c)]
             IN /\ dlog'[Len(dlog')].ok
                /\ DOMAIN after.skipped_message_keys
                       = DOMAIN before.skipped_message_keys \ {m.message_number}
                /\ Cardinality(DOMAIN after.skipped_message_keys)
                       = Cardinality(DOMAIN before.skipped_message_keys) - 1
                /\ ~decrypt(after, m, rng').result.ok]_vars

\* messages 0, 2 and 1 of one chain were opened in that order and no skipped
\* key is left
C33_Witness ==
    \E c \in Clients : \E j \in DOMAIN dlog :
        /\ j + 2 \in DOMAIN dlog
        /\ \A k \in {j, j + 1, j + 2} : dlog[k].to = c /\ dlog[k].ok
        /\ net[dlog[j].idx].msg.message_number = 0
        /\ net[dlog[j + 1].idx].msg.message_number = 2
        /\ net[dlog[j + 2].idx].msg.message_number = 1
        /\ net[dlog[j].idx].msg.dh_public_key = net[dlog[j + 1].idx].msg.dh_public_key
        /\ net[dlog[j].idx].msg.dh_public_key = net[dlog[j + 2].idx].msg.dh_public_key
        /\ j + 2 = Len(dlog)
        /\ DOMAIN clients[c].sessions[Peer(c)].skipped_message_keys = {}

\* C37: every message carries as previous_chain_length the number of
\* messages its sender emitted on the chain it left at its most recent DH
\* ratchet step before the message, and 0 when the sender had made no step.
C37_PreviousChainLength ==
    \A i \in DOMAIN net :
        LET m == net[i].msg
            earlier == {j \in 1 .. (i - 1) :
                           /\ net[j].from = net[i].from
                           /\ net[j].msg.dh_public_key # m.dh_public_key}
        IN IF earlier = {}
           THEN m.previous_chain_length = 0
           ELSE LET left == CHOOSE j \in earlier : \A k \in earlier : k <= j
                IN m.previous_chain_length =
                       Cardinality({j \in DOMAIN net :
                                       /\ net[j].from = net[i].from
                                       /\ net[j].msg.dh_public_key
                                              = net[left].msg.dh_public_key})

\* a message whose sender had emitted two messages on the chain it left was
\* opened by the peer
C37_Witness ==
    \E k \in DOMAIN dlog :
        /\ dlog[k].ok
        /\ net[dlog[k].idx].msg.previous_chain_length = 2
        /\ net[dlog[k].idx].from = "alice"

\* C40: in every session the timestamp map has exactly the keys of the
\* skipped-key map.
C40_TimestampsMatchSkippedKeys ==
    \A c \in Clients : \A p \in DOMAIN clients[c].sessions :
        DOMAIN clients[c].sessions[p].skipped_key_timestamps
            = DOMAIN clients[c].sessions[p].skipped_message_keys


-----------------------------------------------------------------------------
(* Claims on Spec: both Clients initiate *)

\* C39: when both Clients have called init_session toward each other and
\* nothing has been delivered yet, each Client can open every message the
\* other has sent: decrypt on its existing session succeeds (responder
\* initialisation is refused for a contact that already has a session).
C39_BothInitiateStillDecrypt ==
    \A c \in Clients : \A i \in DOMAIN net :
        (/\ dlog = <<>>
         /\ \A p \in Clients : has_session(p, Peer(p))
         /\ net[i].to = c)
        => decrypt(clients[c].sessions[Peer(c)], net[i].msg, rng).result.ok



-----------------------------------------------------------------------------
(* SpecInbound: the transport callback for inbound server messages.  The
   application state sits behind one lock; each inbound message is handled by
   a spawned task that takes the lock and runs until its next storage await.
   hs holds the lock owner (0 when free), each task's position, the number of
   storage writes, the size of the message cache and whether the sender is a
   known contact. *)

InboundTasks == 1 .. MaxInboundTasks

ServerMessageKinds ==
    {"RegisterSuccess", "LoginSuccess", "PublicKeyBundle", "Message", "Ack",
     "Error", "Other"}

\* the positions at which a handler is suspended on a storage future
AwaitPoints == {"save_message", "save_contact", "save_status", "save_bundle"}

\* the first suspension of each handler, "done" when it returns without one;
\* hit: the message decrypts, or the acknowledged id is in the cache
handle_incoming_message(hit) == IF hit THEN "save_message" ELSE "done"

update_message_status(hit) ==
    IF hit /\ hs.cache > 0 THEN "save_status" ELSE "done"

save_contact_bundle == IF hs.contact THEN "save_bundle" ELSE "done"

\* a task that has returned drops the guard and is free for the next message
AfterStep(t, pc) ==
    [hs EXCEPT !.task[t] = IF pc = "done" THEN [pc |-> "idle", kind |-> "none"]
                           ELSE [@ EXCEPT !.pc = pc],
               !.lock = IF pc = "done" THEN 0 ELSE t]

InitInbound ==
    /\ InitClients
    /\ hs \in {[run |-> TRUE, lock |-> 0, saved |-> 0, cache |-> 0,
                arrived |-> 0, contact |-> k,
                task |-> [t \in InboundTasks |->
                             [pc |-> "idle", kind |-> "none"]]] :
               k \in BOOLEAN}

\* the callback: a message arrives and its handler is spawned
set_on_message ==
    \E t \in InboundTasks : \E kind \in ServerMessageKinds :
        /\ hs.task[t].pc = "idle"
        /\ \A u \in InboundTasks : u < t => hs.task[u].pc # "idle"
        /\ hs.arrived < MaxInboundMsgs
        /\ hs' = [hs EXCEPT !.task[t] = [pc |-> "spawned", kind |-> kind],
                            !.arrived = @ + 1]
        /\ UNCHANGED <<clients, net, dlog, rng, now, last>>

\* the spawned task: lock, then the handler up to its first await.  With the
\* lock in the hands of a suspended task, lock() does not return.
spawn_local ==
    \E t \in InboundTasks : \E hit \in BOOLEAN :
        /\ hs.task[t].pc = "spawned"
        /\ IF hs.lock # 0
           THEN hs' = [hs EXCEPT !.task[t].pc = "stuck"]
           ELSE LET kind == hs.task[t].kind
                    pc == CASE kind = "Message" -> handle_incoming_message(hit)
                            [] kind = "Ack" -> update_message_status(hit)
                            [] kind = "PublicKeyBundle" -> save_contact_bundle
                            [] OTHER -> "done"
                IN hs' = AfterStep(t, pc)
        /\ UNCHANGED <<clients, net, dlog, rng, now, last>>

\* the storage future of a suspended handler resolves, with or without an
\* error, and the handler runs on to its next await or to its end
storage_resolves ==
    \E t \in InboundTasks : \E ok \in BOOLEAN :
        /\ hs.task[t].pc \in AwaitPoints
        /\ LET pc == IF ok /\ hs.task[t].pc = "save_message" /\ hs.contact
                     THEN "save_contact" ELSE "done"
               stored == [hs EXCEPT
                   !.saved = IF ok THEN @ + 1 ELSE @,
                   !.cache = IF ok /\ hs.task[t].pc = "save_message"
                             THEN @ + 1 ELSE @]
           IN hs' = [stored EXCEPT
                   !.task[t] = IF pc = "done" THEN [pc |-> "idle", kind |-> "none"]
                               ELSE [@ EXCEPT !.pc = pc],
                   !.lock = IF pc = "done" THEN 0 ELSE @]
        /\ UNCHANGED <<clients, net, dlog, rng, now, last>>

NextInbound == set_on_message \/ spawn_local \/ storage_resolves

SpecInbound == InitInbound /\ [][NextInbound]_vars

\* C38: no handler of an inbound server message is suspended on a storage
\* await while it holds the lock on the application state.
C38_NoLockAcrossAwait ==
    \A t \in InboundTasks : hs.task[t].pc \in AwaitPoints => hs.lock # t

====
